---- MODULE Spec2Model ----
(***************************************************************************)
(* A model of the batch query engine of scripts/run_model_queries.py:      *)
(* the repetition expander (prepare_repeated_questions), the worker pool   *)
(* fan-out with its two provider locks and the tenacity retry wrapper      *)
(* (query_models_parallel, query_single_model, call_model_with_retry) and  *)
(* the tail of main() that persists the results.                           *)
(*                                                                         *)
(* A DataFrame is a record [columns, rows]: columns is the sequence of     *)
(* column names and rows the sequence of row records; every row carries    *)
(* its pandas label (the DataFrame index) in the field label.  A string    *)
(* that the program builds is a sequence of tokens, so that formatting     *)
(* (f"Error: {str(e)}") is a concatenation and not the identity.           *)
(***************************************************************************)
EXTENDS Integers, Sequences, FiniteSets, TLC

\* ---- bounds of the model ------------------------------------------------
MaxTasks == 6         \* futures of one run (rows x requested models)
MaxRunRepeat == 2     \* largest --repeat of a run
PoolTasks == 7        \* futures of the run that saturates the worker pool
MaxExpandRows == 3    \* rows of a frame handed to the expander on its own
MaxRepeat == 3        \* largest repetition count tried on the expander
MaxRepairRows == 2    \* rows of a table handed to the repair workflow
MaxQuestions == 4     \* questions of the rating application's table

\* ---- program constants --------------------------------------------------
max_workers == 6
stop_after_attempt == 5
wait_min == 2
wait_max == 60
sleep_tenths == 12

VARIABLES
  \* the expander on its own (prepare_repeated_questions as a pure function)
  ex_pc, ex_df, ex_n, ex_out,
  \* main(): arguments and environment
  csv_file, file_exists, repeat, models_to_run, credentials, outage,
  \* main() and query_models_parallel: the orchestrating thread
  opc, questions_df, model_instances, row_i, model_i, collect_i,
  responses_dict, dict_order, raw_responses,
  \* the executor: submitted futures and the workers running them
  futures, worker, lock,
  \* time, as far as the spacing of the anthropic calls needs it
  fresh, spacing,
  \* what the run leaves behind
  result_df, raw_saved, csv_written, exit_code,
  \* the repair workflow (rerun_failed_anthropic.py): the table to repair,
  \* the provider, the temporary questions file, the re-run's table, the
  \* merged tables written, the exit code; the exit code of the subprocess
  rp_pc, rp_input, rp_model, rp_temp, rp_results, rp_output, rp_exit,
  rp_returncode,
  \* the rating application (streamlit_app.py): the query ids of the loaded
  \* table, st.session_state, and the argument of the last navigation call
  app_pc, query_ids, question_order, current_question_idx,
  evaluation_complete, direction

expandVars == <<ex_pc, ex_df, ex_n, ex_out>>
inputVars == <<csv_file, file_exists, repeat, models_to_run, credentials,
               outage>>
orchVars == <<opc, questions_df, model_instances, row_i, model_i, collect_i,
              responses_dict, dict_order, raw_responses>>
poolVars == <<futures, worker, lock, fresh, spacing>>
outVars == <<result_df, raw_saved, csv_written, exit_code>>
engineVars == <<inputVars, orchVars, poolVars, outVars>>
repairVars == <<rp_pc, rp_input, rp_model, rp_temp, rp_results, rp_output,
                rp_exit, rp_returncode>>
appVars == <<app_pc, query_ids, question_order, current_question_idx,
             evaluation_complete, direction>>
vars == <<expandVars, engineVars, repairVars, appVars>>

\* ---- generic helpers ----------------------------------------------------
Range(s) == {s[i] : i \in DOMAIN s}

RECURSIVE Flatten(_)
Flatten(ss) == IF ss = <<>> THEN <<>> ELSE Head(ss) \o Flatten(Tail(ss))

IndexOf(s, x) == CHOOSE i \in DOMAIN s : s[i] = x

RemoveAt(s, i) == SubSeq(s, 1, i - 1) \o SubSeq(s, i + 1, Len(s))

InsertAt(s, i, x) == SubSeq(s, 1, i - 1) \o <<x>> \o SubSeq(s, i, Len(s))

\* ---- DataFrames ---------------------------------------------------------
BaseColumns == <<"index", "category", "question", "subcategory1",
                 "subcategory2", "select">>

QRow(lbl, idx, text, sel, qid) ==
  [label |-> lbl, index |-> idx, question |-> text, category |-> "cat",
   subcategory1 |-> "sub1", subcategory2 |-> "sub2", select |-> sel,
   query_id |-> qid]

HasColumn(df, c) == c \in Range(df.columns)

\* the column is never looked at
RowQueryIdAlwaysZero(df, r) == 0

\* row.get('query_id', 0)
RowQueryId(df, r) == IF HasColumn(df, "query_id") THEN r.query_id ELSE 0

\* df.loc[labels]: for every label in turn, the rows that carry it
LocRows(df, labels) ==
  Flatten([k \in DOMAIN labels |->
             SelectSeq(df.rows, LAMBDA r : r.label = labels[k])])

\* df.index.repeat(n): every label n times, consecutively
RepeatLabels(df, n) ==
  Flatten([k \in DOMAIN df.rows |-> [j \in 1..n |-> df.rows[k].label]])

\* reset_index(drop=True): labels become 0..len-1
ResetIndex(rows) == [k \in DOMAIN rows |-> [rows[k] EXCEPT !.label = k - 1]]

\* groupby('index').cumcount() + 1 at position p
CumCountZeroBased(rows, p) ==
  Cardinality({q \in 1..(p - 1) : rows[q].index = rows[p].index})

CumCountPlusOne(rows, p) ==
  Cardinality({q \in 1..(p - 1) : rows[q].index = rows[p].index}) + 1

\* cols.insert(1, cols.pop(cols.index('query_id')))
QueryIdSecond(cols) ==
  InsertAt(RemoveAt(cols, IndexOf(cols, "query_id")), 2, "query_id")

\* the assignment df['query_id'] = ...: a new column goes last
WithQueryIdColumn(cols) ==
  IF "query_id" \in Range(cols) THEN cols ELSE Append(cols, "query_id")

\* the guard of the early return, n_repeats <= 1
NoRepeatStrict(n) == n < 1

NoRepeat(n) == n <= 1

prepare_repeated_questions(df, n) ==
  IF NoRepeat(n) THEN df
  ELSE LET rep == ResetIndex(LocRows(df, RepeatLabels(df, n)))
           numbered == [p \in DOMAIN rep |->
                          [rep[p] EXCEPT !.query_id = CumCountPlusOne(rep, p)]]
       IN [columns |-> QueryIdSecond(WithQueryIdColumn(df.columns)),
           rows |-> numbered]

\* ---- strings the engine builds -------------------------------------------
\* the content of the response the adapter returns on attempt n of task t
AdapterContent(t, n) == <<"answer", ToString(t), ToString(n)>>

\* what the adapter's chat() may raise
AdapterErrors == {"RateLimitError", "APIStatusError"}

\* str() of the tenacity.RetryError raised once the attempts are used up
StrRetryError(last) == <<"RetryError[", last, "]">>

\* f"Error: {str(e)}"
ErrorContent(str_e) == <<"Error: ">> \o str_e

InitFailedContent == <<"Initialization failed">>

\* f"{model_key}_response"
ResponseColumn(m) == <<m, "_response">>

NoneResponse == [some |-> FALSE, content |-> <<>>]

ResponseObject(c) == [some |-> TRUE, content |-> c]

\* What a future holds.  via names the statement that produced it: "line144",
\* "line160" and "line163" are the three returns of query_single_model and
\* "raised" is an exception that left query_single_model uncaught.
NoResult == [via |-> "none", model |-> "", content |-> <<>>,
             full |-> NoneResponse]

\* line 144: return model_key, "Initialization failed", None
InitFailedResult(m) ==
  [via |-> "line144", model |-> m, content |-> InitFailedContent,
   full |-> NoneResponse]

\* line 160: return model_key, response.content, response
SuccessResult(m, c) ==
  [via |-> "line160", model |-> m, content |-> c, full |-> ResponseObject(c)]

\* except Exception as e: every error of the adapter and of tenacity is one
HandlerCatchesNothing(e) == FALSE

HandlerCatches(e) == TRUE

\* line 163: return model_key, f"Error: {str(e)}", None
ExceptResultBarePrefix(m, str_e) ==
  [via |-> "line163", model |-> m, content |-> <<"Error: ">>,
   full |-> NoneResponse]

ExceptResult(m, str_e) ==
  [via |-> "line163", model |-> m, content |-> ErrorContent(str_e),
   full |-> NoneResponse]

UncaughtResult(m, str_e) ==
  [via |-> "raised", model |-> m, content |-> str_e, full |-> NoneResponse]

\* ---- main(): loading the questions ---------------------------------------
\* the filter with a looser comparison
SelectYesLoosely(df) ==
  [columns |-> df.columns,
   rows |-> SelectSeq(df.rows, LAMBDA r : r.select \in {"yes", "Yes", "yes "})]

\* questions_df[questions_df['select'] == 'yes']
SelectYes(df) ==
  [columns |-> df.columns,
   rows |-> SelectSeq(df.rows, LAMBDA r : r.select = "yes")]

\* what lines 312-324 raise: pd.read_csv on a missing file (312), the lookup
\* of the column select (313), groupby('index') in the expander (280)
LoadRaises(file, exists, rep) ==
  \/ ~exists
  \/ ~HasColumn(file, "select")
  \/ rep > 1 /\ ~HasColumn(file, "index")

\* lines 312-324: filter, then expand when --repeat > 1
LoadQuestions(file, rep) ==
  IF rep > 1 THEN prepare_repeated_questions(SelectYes(file), rep)
  ELSE SelectYes(file)

\* ---- initialize_model ----------------------------------------------------
SupportedModels == {"openai", "deepseek", "google", "anthropic", "perplexity",
                    "github", "xai", "ollama"}

\* ollama needs no key; every other supported model needs its own
initialize_model_always(m, keys) == TRUE

initialize_model(m, keys) == m \in SupportedModels /\ (m = "ollama" \/ m \in keys)

\* ---- text, character by character -----------------------------------------
UpperCase == <<"A", "B", "C", "D", "E", "F", "G", "H", "I", "J", "K", "L", "M", "N", "O", "P", "Q", "R", "S", "T", "U", "V", "W", "X", "Y", "Z">>

LowerCase == <<"a", "b", "c", "d", "e", "f", "g", "h", "i", "j", "k", "l", "m", "n", "o", "p", "q", "r", "s", "t", "u", "v", "w", "x", "y", "z">>

\* the characters of the pieces that cell contents are made of
Spell(piece) ==
  CASE piece = "Error: " -> <<"E", "r", "r", "o", "r", ":", " ">>
    [] piece = "Error" -> <<"E", "r", "r", "o", "r">>
    [] piece = "RetryError" -> <<"R", "e", "t", "r", "y", "E", "r", "r", "o", "r">>
    [] piece = "RetryError[" -> <<"R", "e", "t", "r", "y", "E", "r", "r", "o", "r", "[">>
    [] piece = "RateLimitError" -> <<"R", "a", "t", "e", "L", "i", "m", "i", "t", "E", "r", "r", "o", "r">>
    [] piece = "APIStatusError" -> <<"A", "P", "I", "S", "t", "a", "t", "u", "s", "E", "r", "r", "o", "r">>
    [] piece = "Initialization failed" -> <<"I", "n", "i", "t", "i", "a", "l", "i", "z", "a", "t", "i", "o", "n", " ", "f", "a", "i", "l", "e", "d">>
    [] piece = "answer" -> <<"a", "n", "s", "w", "e", "r">>
    [] piece = "dosing errors" -> <<"d", "o", "s", "i", "n", "g", " ", "e", "r", "r", "o", "r", "s">>
    [] piece = "RATELIMITERROR" -> <<"R", "A", "T", "E", "L", "I", "M", "I", "T", "E", "R", "R", "O", "R">>
    [] piece = "nan" -> <<"n", "a", "n">>
    [] OTHER -> <<piece>>

\* the characters of a text given by its pieces
Text(pieces) == Flatten([k \in DOMAIN pieces |-> Spell(pieces[k])])

LowerChar(c) ==
  IF \E i \in DOMAIN UpperCase : UpperCase[i] = c
  THEN LowerCase[CHOOSE i \in DOMAIN UpperCase : UpperCase[i] = c]
  ELSE c

Lower(text) == [k \in DOMAIN text |-> LowerChar(text[k])]

\* pat occurs in text
Contains(text, pat) ==
  \E i \in 1..(Len(text) - Len(pat) + 1) :
    SubSeq(text, i, i + Len(pat) - 1) = pat

\* ---- the inputs of a run -------------------------------------------------
CsvFiles ==
  { [columns |-> BaseColumns,
     rows |-> <<QRow(0, 1, "Q1", "yes", 0)>>],
    [columns |-> BaseColumns,
     rows |-> <<QRow(0, 1, "Q1", "no", 0), QRow(1, 2, "Q2", "yes", 0)>>],
    [columns |-> BaseColumns,
     rows |-> <<QRow(0, 1, "Q1", "yes", 0), QRow(1, 2, "Q2", "yes", 0)>>],
    [columns |-> BaseColumns,
     rows |-> <<QRow(0, 1, "Q1", "yes", 0), QRow(1, 1, "Q1 again", "yes", 0)>>],
    [columns |-> Append(BaseColumns, "query_id"),
     rows |-> <<QRow(0, 2, "Q2", "yes", 3), QRow(1, 1, "Q1", "yes", 2)>>] }

ModelLists == { <<"github">>, <<"openai", "anthropic">>,
                <<"openai", "github", "anthropic">> }

CredentialSets == { {"openai", "github", "anthropic"}, {"openai", "github"},
                    {"anthropic"} }

\* the providers that are down for the whole run (every instance.chat of
\* theirs raises): none, or one requested and initialized provider among the
\* serialized ones
Outages(models, keys) ==
  {{}} \cup {{m} : m \in {x \in Range(models) :
                               /\ initialize_model(x, keys)
                               /\ x \in {"github", "anthropic"}}}

\* ---- the orchestrating thread's dictionary ------------------------------
\* entry_key = (idx, query_id)
EntryKeyIndexOnly(df, r) == <<r.index, 0>>

EntryKey(df, r) == <<r.index, RowQueryId(df, r)>>

\* lines 204-213: the row is created and its metadata set on first sight
NewEntry(df, r) ==
  [index |-> r.index, question |-> r.question, category |-> r.category,
   subcategory1 |-> r.subcategory1, subcategory2 |-> r.subcategory2,
   query_id |-> RowQueryId(df, r), meta_initialized |-> TRUE,
   cells |-> <<>>]

\* the update without its guard
TouchEntryAlways(dict, df, r) == (EntryKey(df, r) :> NewEntry(df, r)) @@ dict

\* responses_dict[entry_key] on the defaultdict, then the guarded update
TouchEntry(dict, df, r) ==
  IF EntryKey(df, r) \in DOMAIN dict /\ dict[EntryKey(df, r)].meta_initialized
  THEN dict
  ELSE (EntryKey(df, r) :> NewEntry(df, r)) @@ dict

TouchOrder(order, dict, df, r) ==
  IF EntryKey(df, r) \in DOMAIN dict THEN order
  ELSE Append(order, EntryKey(df, r))

\* what the top of the loop body raises for row r: row['question'] (196),
\* row['index'] (198) and, when the entry is initialized, row['category'],
\* row['subcategory1'], row['subcategory2'] (208-210)
RowRaises(dict, df, r) ==
  \/ ~HasColumn(df, "question")
  \/ ~HasColumn(df, "index")
  \/ /\ ~(EntryKey(df, r) \in DOMAIN dict /\ dict[EntryKey(df, r)].meta_initialized)
     /\ \E c \in {"category", "subcategory1", "subcategory2"} : ~HasColumn(df, c)

\* raw_responses.setdefault(idx, {}).setdefault(query_id, {})
TouchRaw(raw, df, r) ==
  IF EntryKey(df, r) \in DOMAIN raw THEN raw
  ELSE (EntryKey(df, r) :> <<>>) @@ raw

\* responses_dict[entry_key][f"{model_key}_response"] = content
SetCellUnlessError(dict, key, m, content) ==
  IF Head(content) = "Error: " THEN dict
  ELSE [dict EXCEPT ![key].cells = (ResponseColumn(m) :> content) @@ @]

SetCell(dict, key, m, content) ==
  [dict EXCEPT ![key].cells = (ResponseColumn(m) :> content) @@ @]

\* lines 232-251: the serializable record kept for a truthy full_response
ResponseData(full, m) == [content |-> full.content, model |-> m]

\* the record stored whether or not full_response is truthy
SetRawAlways(raw, key, m, full) ==
  [raw EXCEPT ![key] = (m :> ResponseData(full, m)) @@ @]

SetRaw(raw, key, m, full) ==
  IF full.some
  THEN [raw EXCEPT ![key] = (m :> ResponseData(full, m)) @@ @]
  ELSE raw

\* entry.pop('meta_initialized') and pd.DataFrame(responses_dict.values())
DataFrameOf(dict, order) ==
  [k \in DOMAIN order |->
     [index |-> dict[order[k]].index, question |-> dict[order[k]].question,
      category |-> dict[order[k]].category,
      subcategory1 |-> dict[order[k]].subcategory1,
      subcategory2 |-> dict[order[k]].subcategory2,
      query_id |-> dict[order[k]].query_id,
      cells |-> dict[order[k]].cells]]

\* ---- the executor and the provider locks ---------------------------------
Tasks == DOMAIN futures

\* a task keeps its worker thread until the executor is shut down
RunningUntilShutdown == {t \in Tasks : worker[t].pc # "queued"}

\* a task occupies a worker thread from the moment it is taken off the work
\* queue until query_single_model has returned
Running == {t \in Tasks : worker[t].pc \notin {"queued", "done"}}

Terminal(t) == worker[t].pc = "done"

\* ThreadPoolExecutor(max_workers=6): a thread exists for a queued item only
\* while fewer than max_workers threads are busy
WorkerAvailableUnbounded == TRUE

WorkerAvailable == Cardinality(Running) < max_workers

\* github_lock / anthropic_lock; lock[m] is the set of tasks inside the
\* with-block of m's lock
LockedModels == {"github", "anthropic"}

NeedsLock(m) == m \in LockedModels

LockFreeAlways(m) == TRUE

LockFree(m) == lock[m] = {}

\* the with-block is left, normally or by an exception: the lock is released
ReleaseNever(t) == lock

Release(t) == [m \in DOMAIN lock |-> lock[m] \ {t}]

\* how often the adapter call of task t has raised so far
Raised(t) ==
  IF worker[t].pc = "backoff" \/ worker[t].result.via \in {"line163", "raised"}
  THEN worker[t].attempt
  ELSE IF worker[t].attempt = 0 THEN 0 ELSE worker[t].attempt - 1

\* the environment of a run: either a provider is down and every call to it
\* raises, or the adapter raises for the calls of at most one task, any task
\* and any number of its attempts
Down(t) == futures[t].model_key \in outage

MayReturn(t) == ~Down(t)

MayRaise(t) ==
  \/ Down(t)
  \/ /\ outage = {}
     /\ \A u \in Tasks : Raised(u) > 0 => u = t

\* stop=stop_after_attempt(5): the attempt after which tenacity gives up
LastAttemptOneEarly(n) == n >= stop_after_attempt - 1

LastAttemptOneLate(n) == n > stop_after_attempt

LastAttempt(n) == n >= stop_after_attempt

\* wait=wait_exponential(min=2, max=60), with tenacity's defaults multiplier=1
\* and exp_base=2: the wait after the n-th failed attempt is 2^(n-1), raised
\* to min and cut at max
RECURSIVE Pow2(_)
Pow2(n) == IF n <= 0 THEN 1 ELSE 2 * Pow2(n - 1)

wait_exponential_unclamped(n) == Pow2(n - 1)

wait_exponential(n) ==
  LET exp == Pow2(n - 1)
  IN IF exp < wait_min THEN wait_min
     ELSE IF exp > wait_max THEN wait_max ELSE exp

\* durations are counted in tenths of a time-unit
Tenths(units) == units * 10

\* an anthropic adapter call has been started before
AnthropicCalled ==
  \E u \in Tasks : futures[u].model_key = "anthropic" /\ worker[u].attempt >= 1

\* task t begins a wait (the sleep under the lock, or a backoff): no anthropic
\* call has started since
WaitBegins(t) ==
  fresh' = IF futures[t].model_key = "anthropic" THEN fresh \cup {t} ELSE fresh

\* task t starts an adapter call after a wait of `waited' tenths; for
\* anthropic, spacing records, while the call runs, the time that has at
\* least passed since the start of the previous anthropic call: the whole
\* wait if no call started during it, nothing otherwise
CallStarts(t, waited) ==
  IF futures[t].model_key = "anthropic"
  THEN /\ spacing' = IF AnthropicCalled
                     THEN <<IF t \in fresh THEN waited ELSE 0>>
                     ELSE <<>>
       /\ fresh' = {}
  ELSE UNCHANGED <<fresh, spacing>>

\* the adapter call of task t returns or raises
CallEnds(t) ==
  spacing' = IF futures[t].model_key = "anthropic" THEN <<>> ELSE spacing

\* ---- idle values of the parts a specification does not use ---------------
EmptyFrame == [columns |-> <<>>, rows |-> <<>>]

ExpandIdle ==
  /\ ex_pc = "off"
  /\ ex_df = EmptyFrame
  /\ ex_n = 0
  /\ ex_out = EmptyFrame

RepairIdle ==
  /\ rp_pc = "off"
  /\ rp_input = [cols |-> {}, rows |-> <<>>]
  /\ rp_model = ""
  /\ rp_temp = <<>>
  /\ rp_results = <<>>
  /\ rp_output = <<>>
  /\ rp_exit = "running"
  /\ rp_returncode = <<>>

\* lines 59-76: the session state of a new session
SessionStart ==
  /\ question_order = <<>>
  /\ current_question_idx = 0
  /\ evaluation_complete = FALSE
  /\ direction = ""

AppIdle ==
  /\ app_pc = "off"
  /\ query_ids = <<>>
  /\ SessionStart

\* the state of a run as main() starts, its inputs apart
RunStart ==
  /\ opc = "main"
  /\ questions_df = EmptyFrame
  /\ model_instances = <<>>
  /\ row_i = 0
  /\ model_i = 0
  /\ collect_i = 0
  /\ responses_dict = <<>>
  /\ dict_order = <<>>
  /\ raw_responses = <<>>
  /\ futures = <<>>
  /\ worker = <<>>
  /\ lock = [m \in LockedModels |-> {}]
  /\ fresh = {}
  /\ spacing = <<>>
  /\ result_df = <<>>
  /\ raw_saved = <<>>
  /\ csv_written = <<>>
  /\ exit_code = "running"

EngineIdle ==
  /\ csv_file = EmptyFrame
  /\ file_exists = FALSE
  /\ repeat = 0
  /\ models_to_run = <<>>
  /\ credentials = {}
  /\ outage = {}
  /\ opc = "off"
  /\ questions_df = EmptyFrame
  /\ model_instances = <<>>
  /\ row_i = 0
  /\ model_i = 0
  /\ collect_i = 0
  /\ responses_dict = <<>>
  /\ dict_order = <<>>
  /\ raw_responses = <<>>
  /\ futures = <<>>
  /\ worker = <<>>
  /\ lock = [m \in LockedModels |-> {}]
  /\ fresh = {}
  /\ spacing = <<>>
  /\ result_df = <<>>
  /\ raw_saved = <<>>
  /\ csv_written = <<>>
  /\ exit_code = "running"

\* ---- the expander on its own ---------------------------------------------
\* prepare_repeated_questions(questions_df, n_repeats) is called and returns
Expand ==
  /\ ex_pc = "call"
  /\ ex_out' = prepare_repeated_questions(ex_df, ex_n)
  /\ ex_pc' = "returned"
  /\ UNCHANGED <<ex_df, ex_n, engineVars, repairVars, appVars>>

\* ---- main() and query_models_parallel ------------------------------------
\* main, lines 306-324: the arguments are parsed and the questions loaded
Load ==
  /\ opc = "main"
  /\ IF LoadRaises(csv_file, file_exists, repeat)
     THEN /\ opc' = "crashed"
          /\ exit_code' = "1"
          /\ UNCHANGED questions_df
     ELSE /\ questions_df' = LoadQuestions(csv_file, repeat)
          /\ opc' = "init_models"
          /\ UNCHANGED exit_code
  /\ UNCHANGED <<appVars, expandVars, repairVars, inputVars, poolVars, model_instances,
                 row_i, model_i, collect_i, responses_dict, dict_order,
                 raw_responses, result_df, raw_saved, csv_written>>

\* lines 179-192: every requested model is initialized, a failure leaves None
InitializeModels ==
  /\ opc = "init_models"
  /\ model_instances' = [m \in Range(models_to_run) |->
                           initialize_model(m, credentials)]
  /\ row_i' = 1
  /\ model_i' = 1
  /\ collect_i' = 1
  /\ opc' = IF Len(questions_df.rows) = 0 THEN "collect" ELSE "submit"
  /\ UNCHANGED <<appVars, expandVars, repairVars, inputVars, poolVars, outVars, questions_df,
                 responses_dict, dict_order, raw_responses>>

\* the two nested loops (195, 218) are exhausted after the last model of the
\* last row
LoopEndsAfterFirstRow(lastModel, lastRow) == lastModel

LoopEnds(lastModel, lastRow) == lastModel /\ lastRow

\* lines 195-224, one executor.submit per step; the step that submits a row's
\* first task also runs the top of the loop body for that row (196-216); a
\* KeyError raised there leaves the loop, the executor and main
Submit ==
  /\ opc = "submit"
  /\ LET r == questions_df.rows[row_i]
         first == model_i = 1
         lastModel == model_i = Len(models_to_run)
         lastRow == row_i = Len(questions_df.rows)
     IN IF first /\ RowRaises(responses_dict, questions_df, r)
        THEN /\ opc' = "crashed"
             /\ exit_code' = "1"
             /\ UNCHANGED <<responses_dict, dict_order, raw_responses, futures,
                            worker, model_i, row_i>>
        ELSE
        /\ UNCHANGED exit_code
        /\ responses_dict' = IF first
                             THEN TouchEntry(responses_dict, questions_df, r)
                             ELSE responses_dict
        /\ dict_order' = IF first
                         THEN TouchOrder(dict_order, responses_dict, questions_df, r)
                         ELSE dict_order
        /\ raw_responses' = IF first
                            THEN TouchRaw(raw_responses, questions_df, r)
                            ELSE raw_responses
        /\ futures' = Append(futures,
                             [entry_key |-> EntryKey(questions_df, r),
                              model_key |-> models_to_run[model_i],
                              question |-> r.question])
        /\ worker' = Append(worker, [pc |-> "queued", attempt |-> 0,
                                     waits |-> <<>>, result |-> NoResult])
        /\ model_i' = IF lastModel THEN 1 ELSE model_i + 1
        /\ row_i' = IF lastModel THEN row_i + 1 ELSE row_i
        /\ opc' = IF LoopEnds(lastModel, lastRow) THEN "collect" ELSE "submit"
  /\ UNCHANGED <<appVars, expandVars, repairVars, inputVars, questions_df, model_instances,
                 collect_i, lock, fresh, spacing, result_df, raw_saved,
                 csv_written>>

\* future.result() (227) on the i-th future: the result of that very task
FutureResultFirstDone(i) == worker[CHOOSE t \in Tasks : Terminal(t)].result

FutureResult(i) == worker[i].result

\* lines 226-251: future.result() of the next future in submission order; it
\* returns the triple, or re-raises what query_single_model raised, which
\* nothing in query_models_parallel or main catches
Collect ==
  /\ opc = "collect"
  /\ collect_i \in Tasks
  /\ Terminal(collect_i)
  /\ LET f == futures[collect_i]
         res == FutureResult(collect_i)
     IN IF res.via = "raised"
        THEN /\ opc' = "crashed"
             /\ exit_code' = "1"
             /\ UNCHANGED <<responses_dict, raw_responses, collect_i>>
        ELSE /\ responses_dict' = SetCell(responses_dict, f.entry_key,
                                          f.model_key, res.content)
             /\ raw_responses' = SetRaw(raw_responses, f.entry_key,
                                        f.model_key, res.full)
             /\ collect_i' = collect_i + 1
             /\ UNCHANGED <<opc, exit_code>>
  /\ UNCHANGED <<appVars, expandVars, repairVars, inputVars, poolVars, questions_df, model_instances,
                 row_i, model_i, dict_order, result_df, raw_saved, csv_written>>

\* the count of a progress bar that counts an item when it is handed out
ProgressCountAhead == collect_i

\* tqdm(futures): the bar counts an item when the loop asks for the next one,
\* that is, after the body has run for it
ProgressCount == IF collect_i = 0 THEN 0 ELSE collect_i - 1

\* the loop over futures (226) has consumed every future
AllCollectedButLast == collect_i >= Len(futures)

AllCollected == collect_i > Len(futures)

\* lines 253-258: the executor is shut down, the table is built and returned
Assemble ==
  /\ opc = "collect"
  /\ AllCollected
  /\ result_df' = DataFrameOf(responses_dict, dict_order)
  /\ opc' = "save_raw"
  /\ UNCHANGED <<appVars, expandVars, repairVars, inputVars, poolVars, questions_df, model_instances,
                 row_i, model_i, collect_i, responses_dict, dict_order,
                 raw_responses, raw_saved, csv_written, exit_code>>

\* lines 356-369: the dumps that are attempted, given which of them raise;
\* json.dump is reached only in the handler of a failed pickle.dump
SaveAttempts(pickle_raises, json_raises) ==
  IF ~pickle_raises THEN <<"pkl">>
  ELSE IF ~json_raises THEN <<"pkl_failed", "json">>
  ELSE <<"pkl_failed", "json_failed">>

\* both try blocks end in "except Exception": nothing leaves them
SaveRaisesWithoutInnerHandler(pickle_raises, json_raises) ==
  pickle_raises /\ json_raises

SaveRaises(pickle_raises, json_raises) == FALSE

\* main, lines 353-369: pickle, else JSON, else the raw store is lost
SaveRaw ==
  /\ opc = "save_raw"
  /\ \E pickle_raises, json_raises \in BOOLEAN :
       /\ raw_saved' = SaveAttempts(pickle_raises, json_raises)
       /\ IF SaveRaises(pickle_raises, json_raises)
          THEN opc' = "crashed" /\ exit_code' = "1"
          ELSE opc' = "write_csv" /\ UNCHANGED exit_code
  /\ UNCHANGED <<appVars, expandVars, repairVars, inputVars, poolVars, questions_df, model_instances,
                 row_i, model_i, collect_i, responses_dict, dict_order,
                 raw_responses, result_df, csv_written>>

\* main, lines 371-378: the Result Table is written and main returns
WriteCsv ==
  /\ opc = "write_csv"
  /\ csv_written' = Append(csv_written, result_df)
  /\ exit_code' = "0"
  /\ opc' = "exit"
  /\ UNCHANGED <<appVars, expandVars, repairVars, inputVars, poolVars, questions_df, model_instances,
                 row_i, model_i, collect_i, responses_dict, dict_order,
                 raw_responses, result_df, raw_saved>>

\* ---- a worker thread running query_single_model --------------------------
\* line 143, "if not instance": the instance the task was submitted with
HasInstanceAlways(m) == TRUE

HasInstance(m) == model_instances[m]

\* the oldest queued work item is taken by a free worker, which runs lines
\* 142-158 up to the first point where it can block; without an instance it
\* returns at line 144 at once
StartTask(t) ==
  /\ worker[t].pc = "queued"
  /\ \A u \in Tasks : u < t => worker[u].pc # "queued"
  /\ WorkerAvailable
  /\ LET m == futures[t].model_key
     IN worker' = [worker EXCEPT ![t] =
          IF ~HasInstance(m)
          THEN [pc |-> "done", attempt |-> 0, waits |-> <<>>,
                result |-> InitFailedResult(m)]
          ELSE IF NeedsLock(m)
          THEN [@ EXCEPT !.pc = "lock_wait"]
          ELSE [@ EXCEPT !.pc = "call", !.attempt = 1]]
  /\ UNCHANGED <<appVars, expandVars, repairVars, inputVars, orchVars, outVars, futures, lock,
                 fresh, spacing>>

\* the anthropic branch without its time.sleep(1.2)
AcquireSkipsSleep(t) ==
  /\ worker[t].pc = "lock_wait"
  /\ LET m == futures[t].model_key
     IN /\ LockFree(m)
        /\ lock' = [lock EXCEPT ![m] = @ \cup {t}]
        /\ worker' = [worker EXCEPT ![t] =
                        [@ EXCEPT !.pc = "call", !.attempt = 1]]
        /\ CallStarts(t, 0)
  /\ UNCHANGED <<appVars, expandVars, repairVars, inputVars, orchVars, outVars, futures>>

\* with github_lock: / with anthropic_lock: the lock is acquired
Acquire(t) ==
  /\ worker[t].pc = "lock_wait"
  /\ LET m == futures[t].model_key
     IN /\ LockFree(m)
        /\ lock' = [lock EXCEPT ![m] = @ \cup {t}]
        /\ worker' = [worker EXCEPT ![t] =
             IF m = "anthropic" THEN [@ EXCEPT !.pc = "sleep"]
             ELSE [@ EXCEPT !.pc = "call", !.attempt = 1]]
  /\ WaitBegins(t)
  /\ UNCHANGED <<appVars, expandVars, repairVars, inputVars, orchVars, outVars, futures, spacing>>

\* time.sleep(1.2) under the anthropic lock is over
SleepDone(t) ==
  /\ worker[t].pc = "sleep"
  /\ worker' = [worker EXCEPT ![t] = [@ EXCEPT !.pc = "call", !.attempt = 1]]
  /\ CallStarts(t, sleep_tenths)
  /\ UNCHANGED <<appVars, expandVars, repairVars, inputVars, orchVars, outVars, futures, lock>>

\* the worker thread itself stores the content it got
CallReturnsAndStores(t) ==
  /\ worker[t].pc = "call"
  /\ MayReturn(t)
  /\ worker' = [worker EXCEPT ![t] =
       [@ EXCEPT !.pc = "done",
                 !.result = SuccessResult(futures[t].model_key,
                                          AdapterContent(t, worker[t].attempt))]]
  /\ responses_dict' = SetCell(responses_dict, futures[t].entry_key,
                               futures[t].model_key,
                               AdapterContent(t, worker[t].attempt))
  /\ lock' = Release(t)
  /\ CallEnds(t)
  /\ UNCHANGED <<appVars, expandVars, repairVars, inputVars, outVars, futures, fresh,
                 opc, questions_df, model_instances, row_i, model_i, collect_i,
                 dict_order, raw_responses>>

\* instance.chat returns: the with-block is left (the lock released), line 160
\* returns the result and the worker is free again
CallReturns(t) ==
  /\ worker[t].pc = "call"
  /\ MayReturn(t)
  /\ worker' = [worker EXCEPT ![t] =
       [@ EXCEPT !.pc = "done",
                 !.result = SuccessResult(futures[t].model_key,
                                          AdapterContent(t, worker[t].attempt))]]
  /\ lock' = Release(t)
  /\ CallEnds(t)
  /\ UNCHANGED <<appVars, expandVars, repairVars, inputVars, orchVars, outVars, futures, fresh>>

\* tenacity waits inside call_model_with_retry, which is called inside the
\* with-block: the lock stays with the task during the wait
ReleasedWhileWaiting(t) == [m \in DOMAIN lock |-> lock[m] \ {t}]

HeldWhileWaiting(t) == lock

\* RetryError leaves the with-block: its __exit__ releases the lock
KeptOnException(t) == lock

ReleasedOnException(t) == Release(t)

\* instance.chat raises: tenacity waits and retries, or, after the last
\* attempt, raises RetryError, which leaves the with-block (the lock released)
\* and is caught at line 162, where the error result is returned
CallRaises(t) ==
  /\ worker[t].pc = "call"
  /\ MayRaise(t)
  /\ IF LastAttempt(worker[t].attempt)
     THEN /\ \E e \in AdapterErrors :
               worker' = [worker EXCEPT ![t] =
                 [@ EXCEPT !.pc = "done",
                           !.result =
                              IF HandlerCatches(StrRetryError(e))
                              THEN ExceptResult(futures[t].model_key,
                                                StrRetryError(e))
                              ELSE UncaughtResult(futures[t].model_key,
                                                  StrRetryError(e))]]
          /\ lock' = ReleasedOnException(t)
          /\ UNCHANGED fresh
     ELSE /\ worker' = [worker EXCEPT ![t] =
                          [@ EXCEPT !.pc = "backoff",
                                    !.waits = Append(@, wait_exponential(
                                                          worker[t].attempt))]]
          /\ WaitBegins(t)
          /\ lock' = HeldWhileWaiting(t)
  /\ CallEnds(t)
  /\ UNCHANGED <<appVars, expandVars, repairVars, inputVars, orchVars, outVars, futures>>

\* after the wait the work item is put back on the queue for a new execution
BackoffResubmits(t) ==
  /\ worker[t].pc = "backoff"
  /\ worker' = [worker EXCEPT ![t] =
                  [@ EXCEPT !.pc = "queued", !.attempt = 0, !.waits = <<>>]]
  /\ lock' = Release(t)
  /\ fresh' = fresh \ {t}
  /\ UNCHANGED <<appVars, expandVars, repairVars, inputVars, orchVars, outVars, futures, spacing>>

\* the exponential wait is over and the next attempt starts
BackoffDone(t) ==
  /\ worker[t].pc = "backoff"
  /\ worker' = [worker EXCEPT ![t] =
                  [@ EXCEPT !.pc = "call", !.attempt = @ + 1]]
  /\ CallStarts(t, Tenths(worker[t].waits[Len(worker[t].waits)]))
  /\ UNCHANGED <<appVars, expandVars, repairVars, inputVars, orchVars, outVars, futures, lock>>

\* ---- the repair workflow: rerun_failed_anthropic.py -----------------------
\* a cell read from an empty CSV field
NaN == <<>>

\* df[response_column].astype(str)
AsStr(cell) == IF cell = NaN THEN Spell("nan") ELSE Text(cell)

\* 'Error|RateLimitError|APIStatusError|RetryError'
ErrorPatterns == {Spell("Error"), Spell("RateLimitError"),
                  Spell("APIStatusError"), Spell("RetryError")}

\* .str.contains(..., case=False, na=False) on one cell
error_mask(cell) ==
  \E pat \in ErrorPatterns : Contains(Lower(AsStr(cell)), Lower(pat))

\* the frame without the mask applied
all_rows_df(tab, m) == tab.rows

\* failed_df = df[error_mask]
failed_df(tab, m) ==
  LET Failed(r) == error_mask(r.cells[ResponseColumn(m)])
  IN SelectSeq(tab.rows, Failed)

\* the questions file without the query_id column
TempQuestionsWithoutQueryId(failed) ==
  [columns |-> <<"index", "question", "category", "subcategory1",
                 "subcategory2", "select">>,
   rows |-> [k \in DOMAIN failed |->
               [label |-> k - 1, index |-> failed[k].index,
                question |-> failed[k].question,
                category |-> failed[k].category,
                subcategory1 |-> failed[k].subcategory1,
                subcategory2 |-> failed[k].subcategory2,
                select |-> "yes", query_id |-> failed[k].query_id]]]

\* lines 54-67: the questions of the failed rows with select = 'yes', as the
\* file written with index=False is read back
TempQuestions(failed) ==
  [columns |-> <<"index", "question", "category", "subcategory1",
                 "subcategory2", "query_id", "select">>,
   rows |-> [k \in DOMAIN failed |->
               [label |-> k - 1, index |-> failed[k].index,
                question |-> failed[k].question,
                category |-> failed[k].category,
                subcategory1 |-> failed[k].subcategory1,
                subcategory2 |-> failed[k].subcategory2,
                select |-> "yes", query_id |-> failed[k].query_id]]]

\* the subprocess (90-103): run_model_queries.py --models=m on the temporary
\* file, with the default --repeat; outcome[k] is the content returned for
\* the task of row k
RECURSIVE RerunDict(_, _)
RerunDict(df, n) ==
  IF n = 0 THEN <<>> ELSE TouchEntry(RerunDict(df, n - 1), df, df.rows[n])

RECURSIVE RerunOrder(_, _)
RerunOrder(df, n) ==
  IF n = 0 THEN <<>>
  ELSE TouchOrder(RerunOrder(df, n - 1), RerunDict(df, n - 1), df, df.rows[n])

RECURSIVE RerunCells(_, _, _, _)
RerunCells(df, m, outcome, n) ==
  IF n = 0 THEN RerunDict(df, Len(df.rows))
  ELSE SetCell(RerunCells(df, m, outcome, n - 1), EntryKey(df, df.rows[n]),
               m, outcome[n])

RerunTable(file, m, outcome) ==
  LET df == LoadQuestions(file, 1)
      rows == DataFrameOf(RerunCells(df, m, outcome, Len(df.rows)),
                          RerunOrder(df, Len(df.rows)))
  IN [cols |-> IF rows = <<>> THEN {} ELSE {ResponseColumn(m)}, rows |-> rows]

\* what a task of the re-run can return
RerunOutcomes(k) ==
  {AdapterContent(k, 1), ErrorContent(StrRetryError("RateLimitError")),
   InitFailedContent}

\* line 168: the rows of merged_df that a row of the new results updates
MergeMaskIndexOnly(row, nrow) == row.index = nrow.index

MergeMask(row, nrow) ==
  row.index = nrow.index /\ row.query_id = nrow.query_id

\* line 171: merged_df.loc[mask, response_column] = row[response_column]
LocAssignAppends(cells, col, value) == (col :> (cells[col] \o value)) @@ cells

LocAssign(cells, col, value) == (col :> value) @@ cells

\* the first n rows of the new results written into the rows at the same
\* positions
MergeRowsByPosition(rows, new_rows, col, n) ==
  [k \in DOMAIN rows |->
     IF k <= n
     THEN [rows[k] EXCEPT !.cells = LocAssign(@, col, new_rows[k].cells[col])]
     ELSE rows[k]]

\* lines 163-171 for the first n rows of the new results
RECURSIVE MergeRows(_, _, _, _)
MergeRows(rows, new_rows, col, n) ==
  IF n = 0 THEN rows
  ELSE LET sofar == MergeRows(rows, new_rows, col, n - 1)
       IN [k \in DOMAIN sofar |->
             IF MergeMask(sofar[k], new_rows[n])
             THEN [sofar[k] EXCEPT !.cells =
                     LocAssign(@, col, new_rows[n].cells[col])]
             ELSE sofar[k]]

merge_results(original, new, m) ==
  [cols |-> original.cols,
   rows |-> MergeRows(original.rows, new.rows, ResponseColumn(m),
                      Len(new.rows))]

\* main, lines 194-215: return 1 from the handler of any exception, else 0
ExitCodeAlwaysZero(raised) == "0"

ExitCode(raised) == IF raised THEN "1" ELSE "0"

\* line 119: process.returncode != 0
NonZero(returncode) == returncode # 0

\* main, step 1: extract_failed_queries; a missing column raises, and main
\* returns 1
RepairExtract ==
  /\ rp_pc = "extract"
  /\ IF ResponseColumn(rp_model) \notin rp_input.cols
     THEN /\ rp_pc' = "exit"
          /\ rp_exit' = ExitCode(TRUE)
          /\ UNCHANGED rp_temp
     ELSE /\ rp_temp' = <<TempQuestions(failed_df(rp_input, rp_model))>>
          /\ rp_pc' = "rerun"
          /\ UNCHANGED rp_exit
  /\ UNCHANGED <<appVars, expandVars, engineVars, rp_input, rp_model, rp_results,
                 rp_output, rp_returncode>>

\* main, step 2: run_model_queries; a non-zero exit code raises, and main
\* returns 1; otherwise the newest responses file is the re-run's table
RepairRerun ==
  /\ rp_pc = "rerun"
  /\ \E returncode \in {0, 1} :
       /\ rp_returncode' = <<returncode>>
       /\ IF NonZero(returncode)
          THEN /\ rp_pc' = "exit"
               /\ rp_exit' = ExitCode(TRUE)
               /\ UNCHANGED rp_results
          ELSE /\ \E outcome \in [DOMAIN rp_temp[1].rows ->
                                    UNION {RerunOutcomes(k) :
                                             k \in DOMAIN rp_temp[1].rows}] :
                    /\ \A k \in DOMAIN outcome : outcome[k] \in RerunOutcomes(k)
                    /\ rp_results' = <<RerunTable(rp_temp[1], rp_model, outcome)>>
               /\ rp_pc' = "merge"
               /\ UNCHANGED rp_exit
  /\ UNCHANGED <<appVars, expandVars, engineVars, rp_input, rp_model, rp_temp,
                 rp_output>>

\* main, step 3: merge_results; a missing column raises, and main returns 1
RepairMerge ==
  /\ rp_pc = "merge"
  /\ IF \/ ResponseColumn(rp_model) \notin rp_input.cols
        \/ ResponseColumn(rp_model) \notin rp_results[1].cols
     THEN /\ rp_pc' = "exit"
          /\ rp_exit' = ExitCode(TRUE)
          /\ UNCHANGED rp_output
     ELSE /\ rp_output' = Append(rp_output,
                                 merge_results(rp_input, rp_results[1],
                                               rp_model))
          /\ rp_pc' = "cleanup"
          /\ UNCHANGED rp_exit
  /\ UNCHANGED <<appVars, expandVars, engineVars, rp_input, rp_model, rp_temp,
                 rp_results, rp_returncode>>

\* merge_results called once more, on the table it wrote and the same new
\* results
RepairMergeAgain ==
  /\ rp_pc = "cleanup"
  /\ Len(rp_output) = 1
  /\ rp_output' = Append(rp_output,
                         merge_results(rp_output[1], rp_results[1], rp_model))
  /\ UNCHANGED <<appVars, expandVars, engineVars, rp_pc, rp_input, rp_model, rp_temp,
                 rp_results, rp_exit, rp_returncode>>

\* main, step 4: the temporary file is removed and main returns 0
RepairCleanup ==
  /\ rp_pc = "cleanup"
  /\ rp_temp' = <<>>
  /\ rp_exit' = ExitCode(FALSE)
  /\ rp_pc' = "exit"
  /\ UNCHANGED <<appVars, expandVars, engineVars, rp_input, rp_model, rp_results,
                 rp_output, rp_returncode>>

\* ---- the rating application: streamlit_app.py ------------------------------
\* random.shuffle: any order of the same items
Shuffles(items) ==
  {[k \in DOMAIN items |-> items[p[k]]] :
     p \in {q \in [DOMAIN items -> DOMAIN items] :
              \A i, j \in DOMAIN items : q[i] = q[j] => i = j}}

\* main, lines 217-220: the question order is created from the query ids of
\* the loaded table, once, while the order is empty
CreateQuestionOrder ==
  /\ app_pc = "load"
  /\ question_order = <<>>
  /\ question_order' \in Shuffles([k \in DOMAIN query_ids |-> <<query_ids[k], 1>>])
  /\ app_pc' = "rating"
  /\ UNCHANGED <<expandVars, engineVars, repairVars, query_ids,
                 current_question_idx, evaluation_complete, direction>>

\* line 192 with the comparison against the length itself
HasNextOffByOne(idx, order) == idx < Len(order)

\* line 192: current_question_idx < len(question_order) - 1
HasNext(idx, order) == idx < Len(order) - 1

\* line 197: current_question_idx > 0
HasPrevious(idx) == idx > 0

\* lines 190-198: navigate_question(d), called by the buttons Previous, Next
\* and Continue to Next Question; any d other than "next" is "previous"
navigate_question(d) ==
  /\ app_pc = "rating"
  /\ direction' = d
  /\ IF d = "next"
     THEN IF HasNext(current_question_idx, question_order)
          THEN /\ current_question_idx' = current_question_idx + 1
               /\ UNCHANGED evaluation_complete
          ELSE /\ evaluation_complete' = TRUE
               /\ UNCHANGED current_question_idx
     ELSE /\ current_question_idx' =
               IF HasPrevious(current_question_idx)
               THEN current_question_idx - 1 ELSE current_question_idx
          /\ UNCHANGED evaluation_complete
  /\ UNCHANGED <<expandVars, engineVars, repairVars, app_pc, query_ids,
                 question_order>>

Directions == {"next", "previous"}

\* a session of the rating application on a table with at least one query id
AppInit ==
  /\ ExpandIdle
  /\ EngineIdle
  /\ RepairIdle
  /\ app_pc = "load"
  /\ \E n \in 1..MaxQuestions : query_ids = [k \in 1..n |-> k]
  /\ SessionStart

AppNext ==
  \/ CreateQuestionOrder
  \/ \E d \in Directions : navigate_question(d)

SpecApp == AppInit /\ [][AppNext]_vars

\* ---- the specifications ---------------------------------------------------
RowsOf(file, rep) == Len(LoadQuestions(file, rep).rows)

\* a run of main() on any of the inputs
Init ==
  /\ ExpandIdle
  /\ AppIdle
  /\ RepairIdle
  /\ csv_file \in CsvFiles
  /\ file_exists = TRUE
  /\ repeat \in 1..MaxRunRepeat
  /\ models_to_run \in ModelLists
  /\ credentials \in CredentialSets
  /\ outage \in Outages(models_to_run, credentials)
  /\ RowsOf(csv_file, repeat) * Len(models_to_run) <= MaxTasks
  /\ RunStart

Next ==
  \/ Load
  \/ InitializeModels
  \/ Submit
  \/ Collect
  \/ Assemble
  \/ SaveRaw
  \/ WriteCsv
  \/ \E t \in Tasks : StartTask(t)
  \/ \E t \in Tasks : Acquire(t)
  \/ \E t \in Tasks : SleepDone(t)
  \/ \E t \in Tasks : CallReturns(t)
  \/ \E t \in Tasks : CallRaises(t)
  \/ \E t \in Tasks : BackoffDone(t)

Spec == Init /\ [][Next]_vars

\* a run with more tasks than workers, all of them for a serialized provider
PoolInit ==
  /\ ExpandIdle
  /\ AppIdle
  /\ RepairIdle
  /\ csv_file = [columns |-> BaseColumns,
                 rows |-> <<QRow(0, 1, "Q1", "yes", 0)>>]
  /\ file_exists = TRUE
  /\ repeat = PoolTasks
  /\ models_to_run = <<"anthropic">>
  /\ credentials = {"anthropic"}
  /\ outage = {}
  /\ RunStart

PoolSpec == PoolInit /\ [][Next]_vars

\* no thread that can take a step is left waiting for ever
FairPoolSpec == PoolSpec /\ WF_vars(Next)

\* the columns the engine reads from the input file
RequiredColumns == {"index", "category", "question", "subcategory1",
                    "subcategory2", "select"}

WithoutColumn(cols, c) == SelectSeq(cols, LAMBDA x : x # c)

\* input files that main() may be started on: a complete file, a file with
\* other select values than "yes", the complete file with one required
\* column left out, and files no row of which is selected
PreflightFiles ==
  {[columns |-> BaseColumns, rows |-> <<QRow(0, 1, "Q1", "yes", 0)>>],
   [columns |-> BaseColumns,
    rows |-> <<QRow(0, 1, "Q1", "Yes", 0), QRow(1, 2, "Q2", "yes", 0),
               QRow(2, 3, "Q3", "yes ", 0), QRow(3, 4, "Q4", "", 0)>>],
   [columns |-> BaseColumns, rows |-> <<QRow(0, 1, "Q1", "no", 0)>>],
   [columns |-> WithoutColumn(BaseColumns, "category"),
    rows |-> <<QRow(0, 1, "Q1", "no", 0)>>]}
  \cup {[columns |-> WithoutColumn(BaseColumns, c),
         rows |-> <<QRow(0, 1, "Q1", "yes", 0)>>] : c \in RequiredColumns}

\* a run of main() on an input file that may be missing or incomplete
PreflightInit ==
  /\ ExpandIdle
  /\ AppIdle
  /\ RepairIdle
  /\ file_exists \in BOOLEAN
  /\ csv_file \in IF file_exists THEN PreflightFiles ELSE {EmptyFrame}
  /\ repeat \in {1, 2}
  /\ models_to_run \in ModelLists
  /\ credentials \in CredentialSets
  /\ outage = {}
  /\ RunStart

SpecPreflight == PreflightInit /\ [][Next]_vars

\* input files with and without a query_id column, with distinct and with
\* repeated index values, and with a row that is not selected
QueryIdFiles ==
  {[columns |-> Append(BaseColumns, "query_id"),
    rows |-> <<QRow(0, 1, "Q1", "yes", 7), QRow(1, 2, "Q2", "yes", 9)>>],
   [columns |-> BaseColumns,
    rows |-> <<QRow(0, 1, "Q1", "yes", 0), QRow(1, 2, "Q2", "yes", 0)>>],
   [columns |-> Append(BaseColumns, "query_id"),
    rows |-> <<QRow(0, 1, "Q1", "yes", 7), QRow(1, 1, "Q1", "yes", 9)>>],
   [columns |-> Append(BaseColumns, "query_id"),
    rows |-> <<QRow(0, 1, "Q1", "no", 7), QRow(1, 2, "Q2", "yes", 9)>>]}

\* a run of main() for one serialized provider on any of these files, with
\* --repeat from 0 on
QueryIdInit ==
  /\ ExpandIdle
  /\ AppIdle
  /\ RepairIdle
  /\ csv_file \in QueryIdFiles
  /\ file_exists = TRUE
  /\ repeat \in 0..MaxRunRepeat
  /\ models_to_run \in {<<"anthropic">>, <<"github">>}
  /\ credentials = {"anthropic", "github"}
  /\ outage = {}
  /\ RunStart

SpecQueryId == QueryIdInit /\ [][Next]_vars

\* the expander applied to any frame main() can hand it
ExpandInit ==
  /\ EngineIdle
  /\ AppIdle
  /\ RepairIdle
  /\ ex_pc = "call"
  /\ \E n \in 0..MaxExpandRows :
       \E idx \in [1..n -> {1, 2}] :
         \E withQid \in BOOLEAN :
           ex_df = [columns |-> IF withQid THEN Append(BaseColumns, "query_id")
                                ELSE BaseColumns,
                    rows |-> [k \in 1..n |->
                                QRow(2 * k, idx[k], "Q", "yes",
                                     IF withQid THEN k + n ELSE 0)]]
  /\ ex_n \in -1..MaxRepeat
  /\ ex_out = EmptyFrame

ExpandNext == Expand

SpecExpand == ExpandInit /\ [][ExpandNext]_vars

\* the cells a table handed to the repair workflow can hold for the provider
RepairCells ==
  {ErrorContent(StrRetryError("RateLimitError")), InitFailedContent,
   AdapterContent(1, 1), <<"dosing errors">>, <<"RATELIMITERROR">>, NaN}

RepairKeys == {<<1, 1>>, <<1, 2>>, <<2, 1>>}

\* a row of a responses table
TableRow(key, k, cell) ==
  [index |-> key[1], question |-> ToString(k), category |-> "cat",
   subcategory1 |-> "sub1", subcategory2 |-> "sub2", query_id |-> key[2],
   cells |-> (<<"anthropic", "_response">> :> cell)
             @@ (<<"openai", "_response">> :> AdapterContent(k, 1))]

\* the repair workflow on any small table with the responses of anthropic
\* and openai, for a provider the table has or has not
RepairInit ==
  /\ ExpandIdle
  /\ AppIdle
  /\ EngineIdle
  /\ rp_pc = "extract"
  /\ \E n \in 1..MaxRepairRows :
       \E key \in [1..n -> RepairKeys] :
         \E cell \in [1..n -> RepairCells] :
           rp_input = [cols |-> {<<"anthropic", "_response">>,
                                 <<"openai", "_response">>},
                       rows |-> [k \in 1..n |-> TableRow(key[k], k, cell[k])]]
  /\ rp_model \in {"anthropic", "github"}
  /\ rp_temp = <<>>
  /\ rp_results = <<>>
  /\ rp_output = <<>>
  /\ rp_exit = "running"
  /\ rp_returncode = <<>>

RepairNext == RepairExtract \/ RepairRerun \/ RepairMerge \/ RepairCleanup

SpecRepair == RepairInit /\ [][RepairNext]_vars

\* the (index, query_id) of the rows of a table the engine wrote: query_id 0
\* throughout for a run without repetition, 1..R for a repeated run
RunKeys(repeated) ==
  IF repeated THEN {<<1, 1>>, <<1, 2>>, <<2, 1>>, <<2, 2>>}
  ELSE {<<1, 0>>, <<2, 0>>, <<3, 0>>}

\* the repair workflow on a table written by run_model_queries.py: its rows
\* have pairwise distinct (index, query_id)
EndToEndInit ==
  /\ ExpandIdle
  /\ AppIdle
  /\ EngineIdle
  /\ rp_pc = "extract"
  /\ \E repeated \in BOOLEAN :
       \E n \in 1..MaxRepairRows :
         \E key \in [1..n -> RunKeys(repeated)] :
           \E cell \in [1..n -> RepairCells] :
             /\ \A i, j \in 1..n : key[i] = key[j] => i = j
             /\ rp_input = [cols |-> {<<"anthropic", "_response">>,
                                      <<"openai", "_response">>},
                            rows |-> [k \in 1..n |->
                                        TableRow(key[k], k, cell[k])]]
  /\ rp_model \in {"anthropic", "github"}
  /\ rp_temp = <<>>
  /\ rp_results = <<>>
  /\ rp_output = <<>>
  /\ rp_exit = "running"
  /\ rp_returncode = <<>>

SpecEndToEnd == EndToEndInit /\ [][RepairNext]_vars

\* the cells of the original table and of the new results in a call of
\* merge_results
MergeOldCells == {ErrorContent(StrRetryError("RateLimitError")),
                  AdapterContent(1, 1)}

\* a row of the responses table the re-run wrote for provider m
NewRow(key, k, m, cell) ==
  [index |-> key[1], question |-> ToString(k), category |-> "cat",
   subcategory1 |-> "sub1", subcategory2 |-> "sub2", query_id |-> key[2],
   cells |-> (ResponseColumn(m) :> cell)]

\* merge_results on any small original table and any new results table, the
\* rows of each in any order; the new results are a table written by
\* run_model_queries.py, whose rows have pairwise distinct (index, query_id)
MergeInit ==
  /\ ExpandIdle
  /\ AppIdle
  /\ EngineIdle
  /\ rp_pc = "merge"
  /\ rp_model \in {"anthropic", "github"}
  /\ \E n \in 1..MaxRepairRows :
       \E key \in [1..n -> RepairKeys] :
         \E cell \in [1..n -> MergeOldCells] :
           rp_input = [cols |-> {<<"anthropic", "_response">>,
                                 <<"openai", "_response">>},
                       rows |-> [k \in 1..n |-> TableRow(key[k], k, cell[k])]]
  /\ \E n \in 1..MaxRepairRows :
       \E key \in [1..n -> RepairKeys] :
         \E cell \in [1..n -> UNION {RerunOutcomes(k) : k \in 1..n}] :
           /\ \A i, j \in 1..n : key[i] = key[j] => i = j
           /\ \A k \in 1..n : cell[k] \in RerunOutcomes(k)
           /\ rp_results = <<[cols |-> {ResponseColumn(rp_model)},
                              rows |-> [k \in 1..n |->
                                          NewRow(key[k], k, rp_model, cell[k])]]>>
  /\ rp_temp = <<TempQuestions(rp_results[1].rows)>>
  /\ rp_output = <<>>
  /\ rp_exit = "running"
  /\ rp_returncode = <<0>>

MergeNext == RepairMerge \/ RepairMergeAgain \/ RepairCleanup

SpecMerge == MergeInit /\ [][MergeNext]_vars

\* ---- claims ----------------------------------------------------------------
ModelOf(t) == futures[t].model_key

\* the adapter call of t (call_model_with_retry) is in progress: an attempt
\* is running or tenacity waits between two attempts
InCall(t) == worker[t].pc \in {"call", "backoff"}

Returned == opc \in {"save_raw", "write_csv", "exit"}

\* the cell of task t in the accumulator
CellOf(t) == responses_dict[futures[t].entry_key].cells[ResponseColumn(ModelOf(t))]

Collected(t) == opc # "crashed" /\ collect_i > t

\* no task collected after t wrote the cell t wrote
LastWriter(t) ==
  \A u \in Tasks :
    (u > t /\ Collected(u)) =>
      ~(futures[u].entry_key = futures[t].entry_key /\ ModelOf(u) = ModelOf(t))

\* C1: for github and for anthropic, no two tasks of the provider are inside
\* call_model_with_retry (an attempt or a backoff wait) at the same time.
C1_SerializedCalls ==
  \A m \in {"github", "anthropic"} :
    \A t, u \in Tasks :
      (t # u /\ ModelOf(t) = m /\ ModelOf(u) = m) => ~(InCall(t) /\ InCall(u))

\* all six workers are busy: a github task waits between two attempts while
\* another github task waits for the lock, and the same for anthropic
C1_Witness ==
  /\ Cardinality(Running) = max_workers
  /\ \E t, u \in Tasks :
       /\ ModelOf(t) = "github" /\ worker[t].pc = "backoff"
       /\ ModelOf(u) = "github" /\ worker[u].pc = "lock_wait"
  /\ \E t, u \in Tasks :
       /\ ModelOf(t) = "anthropic" /\ worker[t].pc = "call"
       /\ ModelOf(u) = "anthropic" /\ worker[u].pc = "lock_wait"

\* C2: the tasks that occupy a worker (calling, sleeping, in a backoff wait or
\* waiting for a provider lock) are never more than the pool capacity.
C2_PoolCapacity == Cardinality(Running) <= max_workers

\* the pool is full, one task waits between attempts, others for the lock,
\* and a submitted task is still queued
C2_Witness ==
  /\ Cardinality(Running) = max_workers
  /\ \E t \in Tasks : worker[t].pc = "queued"
  /\ \E t \in Tasks : worker[t].pc = "backoff"
  /\ \E t \in Tasks : worker[t].pc = "lock_wait"

\* C3: every submitted task ends in a terminal state: from some point on the
\* submission is over and every future is done.
C3_EveryTaskTerminates ==
  <>[](opc \notin {"main", "init_models", "submit"}
       /\ \A t \in Tasks : Terminal(t))

\* more tasks than workers were submitted, all are done, and one of them used
\* up its five attempts while the others waited for its lock
C3_Witness ==
  /\ Len(futures) > max_workers
  /\ \A t \in Tasks : Terminal(t)
  /\ \E t \in Tasks : Raised(t) = stop_after_attempt
  /\ opc = "exit"

\* C4: in the returned table every row has, for every requested provider, a
\* response cell, and the cell is a non-empty string.
C4_CellsPresent ==
  Returned =>
    \A k \in DOMAIN result_df :
      \A m \in Range(models_to_run) :
        /\ <<m, "_response">> \in DOMAIN result_df[k].cells
        /\ Len(result_df[k].cells[<<m, "_response">>]) > 0

\* a returned table with an initialization failure, an exhausted retry and a
\* success in its cells
C4_Witness ==
  /\ Returned
  /\ \E k \in DOMAIN result_df :
       \E c \in DOMAIN result_df[k].cells :
         result_df[k].cells[c] = <<"Initialization failed">>
  /\ \E k \in DOMAIN result_df :
       \E c \in DOMAIN result_df[k].cells :
         Head(result_df[k].cells[c]) = "Error: "
  /\ \E k \in DOMAIN result_df :
       \E c \in DOMAIN result_df[k].cells :
         Head(result_df[k].cells[c]) = "answer"

InputKeys ==
  {<<questions_df.rows[k].index,
     IF "query_id" \in Range(questions_df.columns)
     THEN questions_df.rows[k].query_id ELSE 0>> : k \in DOMAIN questions_df.rows}

\* C5: the accumulator never holds two rows with the same (index, query_id),
\* and the returned table has exactly one row for every distinct
\* (index, query_id) of the input rows.
C5_OneRowPerKey ==
  /\ \A i, j \in DOMAIN dict_order : i # j => dict_order[i] # dict_order[j]
  /\ Range(dict_order) = DOMAIN responses_dict
  /\ \A k1, k2 \in DOMAIN responses_dict :
       k1 # k2 => <<responses_dict[k1].index, responses_dict[k1].query_id>>
                    # <<responses_dict[k2].index, responses_dict[k2].query_id>>
  /\ Returned =>
       /\ \A i, j \in DOMAIN result_df :
            i # j => <<result_df[i].index, result_df[i].query_id>>
                       # <<result_df[j].index, result_df[j].query_id>>
       /\ {<<result_df[i].index, result_df[i].query_id>> : i \in DOMAIN result_df}
            = InputKeys

\* a returned table whose input repeated a key, with several providers'
\* tasks landing in the one row
C5_Witness ==
  /\ Returned
  /\ Len(result_df) > 0
  /\ Len(questions_df.rows) > Len(result_df)
  /\ Len(models_to_run) > 1

IndexValues(df) == {df.rows[k].index : k \in DOMAIN df.rows}

RowsWithIndex(df, i) == {k \in DOMAIN df.rows : df.rows[k].index = i}

UniqueIndex(df) ==
  \A j, k \in DOMAIN df.rows : j # k => df.rows[j].index # df.rows[k].index

\* R rows for index i, numbered 1..R without gap or duplicate
ExactlyOneToR(df, i, R) ==
  /\ Cardinality(RowsWithIndex(df, i)) = R
  /\ {df.rows[k].query_id : k \in RowsWithIndex(df, i)} = 1..R

\* C6 as stated: for every input and R > 1 the expander returns exactly R rows
\* per distinct index, with query_id values exactly 1..R.
C6_AnyInput ==
  (ex_pc = "returned" /\ ex_n > 1) =>
    /\ IndexValues(ex_out) = IndexValues(ex_df)
    /\ \A i \in IndexValues(ex_df) : ExactlyOneToR(ex_out, i, ex_n)

\* C6 as amended: for every input whose rows have pairwise distinct index
\* values and every R > 1, the expander returns exactly R rows per index, with
\* query_id values exactly 1..R, in a query_id column.
C6_UniqueIndexInput ==
  (ex_pc = "returned" /\ ex_n > 1 /\ UniqueIndex(ex_df)) =>
    /\ IndexValues(ex_out) = IndexValues(ex_df)
    /\ \A i \in IndexValues(ex_df) : ExactlyOneToR(ex_out, i, ex_n)
    /\ "query_id" \in Range(ex_out.columns)

\* two questions that already carried a query_id, expanded three times
C6_Witness ==
  /\ ex_pc = "returned"
  /\ ex_n > 2
  /\ UniqueIndex(ex_df)
  /\ Len(ex_df.rows) > 1
  /\ "query_id" \in Range(ex_df.columns)
  /\ Len(ex_out.rows) = ex_n * Len(ex_df.rows)

\* C7: for R <= 1 the expander returns its input unchanged: same columns, same
\* rows with the same labels and query_id values, in the same order.
C7_NoRepeatIsIdentity ==
  (ex_pc = "returned" /\ ex_n <= 1) =>
    /\ ex_out.columns = ex_df.columns
    /\ ex_out.rows = ex_df.rows

\* R = 1 on a frame of several rows without a query_id column
C7_Witness ==
  /\ ex_pc = "returned"
  /\ ex_n = 1
  /\ Len(ex_df.rows) > 1
  /\ "query_id" \notin Range(ex_df.columns)
  /\ "query_id" \notin Range(ex_out.columns)

\* C8: a task whose adapter raised four times and then returned ends
\* Succeeded with the content of the fifth call, and the cell it wrote holds
\* that content.
C8_FifthAttemptContent ==
  \A t \in Tasks :
    (Terminal(t) /\ Raised(t) = 4) =>
      /\ worker[t].result.via = "line160"
      /\ worker[t].result.content = <<"answer", ToString(t), "5">>
      /\ worker[t].result.full = [some |-> TRUE,
                                  content |-> <<"answer", ToString(t), "5">>]
      /\ (Collected(t) /\ LastWriter(t)) =>
            CellOf(t) = <<"answer", ToString(t), "5">>

\* such a task, collected, in a finished run
C8_Witness ==
  \E t \in Tasks :
    /\ Terminal(t) /\ Raised(t) = 4
    /\ Collected(t) /\ LastWriter(t)
    /\ CellOf(t) = <<"answer", ToString(t), "5">>
    /\ opc = "exit"

\* C9: a task whose adapter raised on all five attempts ends Failed:
\* query_single_model returns (it does not raise) the content "Error: "
\* followed by str() of the error and no raw response; every other task ends
\* with the result of its own calls only (the answer of its first call that
\* returned, its own exhaustion, or its provider's failed initialization).
C9_ExhaustedIsRecorded ==
  \A t \in Tasks :
    (Terminal(t) /\ Raised(t) = 5) =>
      /\ worker[t].result.via = "line163"
      /\ \E e \in AdapterErrors :
           worker[t].result.content = <<"Error: ", "RetryError[", e, "]">>
      /\ worker[t].result.full = NoneResponse
      /\ (Collected(t) /\ LastWriter(t)) => CellOf(t) = worker[t].result.content
      /\ \A u \in Tasks \ {t} :
           Terminal(u) =>
             IF ~model_instances[ModelOf(u)]
             THEN worker[u].result =
                    [via |-> "line144", model |-> ModelOf(u),
                     content |-> <<"Initialization failed">>,
                     full |-> NoneResponse]
             ELSE IF Raised(u) = 5
             THEN worker[u].result.via = "line163"
             ELSE worker[u].result =
                    [via |-> "line160", model |-> ModelOf(u),
                     content |-> <<"answer", ToString(u),
                                   ToString(Raised(u) + 1)>>,
                     full |-> [some |-> TRUE,
                               content |-> <<"answer", ToString(u),
                                             ToString(Raised(u) + 1)>>]]

\* a finished run with an exhausted task beside a successful one
C9_Witness ==
  /\ opc = "exit"
  /\ \E t, u \in Tasks :
       /\ Raised(t) = 5 /\ Terminal(t) /\ Collected(t)
       /\ t # u /\ worker[u].result.via = "line160"

\* C10: no future ever holds an exception: each holds a (provider, content,
\* raw) triple; the orchestrator never fails, and a run can only stop after
\* the table was written once and main ended with exit code 0.
C10_ErrorsAreData ==
  /\ \A t \in Tasks :
       Terminal(t) =>
         /\ worker[t].result.via \in {"line144", "line160", "line163"}
         /\ worker[t].result.model = ModelOf(t)
         /\ Len(worker[t].result.content) > 0
  /\ opc # "crashed"
  /\ exit_code # "1"
  /\ (~ENABLED Next) =>
       /\ opc = "exit"
       /\ exit_code = "0"
       /\ csv_written = <<result_df>>
       /\ Len(result_df) = Cardinality(InputKeys)

\* a finished run in which two tasks exhausted their retries and a provider
\* was never initialized
C10_Witness ==
  /\ opc = "exit"
  /\ exit_code = "0"
  /\ \E t, u, v \in Tasks :
       /\ t # v
       /\ worker[t].result.via = "line163"
       /\ worker[v].result.via = "line163"
       /\ worker[u].result.via = "line144"

\* C11: within one retried call every wait before a retry is between 2 and 60
\* time-units, the first is the minimum 2, and no wait is shorter than the
\* one before it (each is the previous one or its double).
C11_WaitsBoundedMonotone ==
  \A t \in Tasks :
    LET w == worker[t].waits
    IN /\ \A i \in DOMAIN w : 2 <= w[i] /\ w[i] <= 60
       /\ \A i, j \in DOMAIN w : i < j => w[i] <= w[j]
       /\ Len(w) > 0 => w[1] = 2
       /\ \A i \in DOMAIN w : i > 1 => w[i] \in {w[i - 1], 2 * w[i - 1]}
       /\ worker[t].pc = "backoff" => Len(w) = worker[t].attempt

\* a task that used its five attempts, after waits of 2, 2, 4 and 8
C11_Witness ==
  \E t \in Tasks :
    /\ Terminal(t)
    /\ worker[t].attempt = 5
    /\ worker[t].waits = <<2, 2, 4, 8>>

\* C14: an anthropic task sleeps and calls only while it holds the anthropic
\* lock, sleeps before its first attempt, holds no lock once it is done, and
\* at least 1.2 time-units (12 tenths) pass between the starts of two
\* consecutive anthropic adapter calls.
C14_AnthropicSpacing ==
  /\ \A i \in DOMAIN spacing : spacing[i] >= 12
  /\ \A t \in Tasks :
       ModelOf(t) = "anthropic" =>
         /\ worker[t].pc \in {"sleep", "call", "backoff"}
              => lock["anthropic"] = {t}
         /\ worker[t].pc = "sleep" => worker[t].attempt = 0
         /\ worker[t].pc \in {"queued", "lock_wait", "done"}
              => t \notin lock["anthropic"]

\* the first attempt of an anthropic task has just started, 1.2 time-units
\* after the last call of the anthropic task before it, which is done
C14_Witness ==
  /\ spacing = <<12>>
  /\ \E t, u \in Tasks :
       /\ t # u
       /\ ModelOf(t) = "anthropic" /\ ModelOf(u) = "anthropic"
       /\ worker[t].pc = "done" /\ worker[t].attempt >= 1
       /\ worker[u].pc = "call" /\ worker[u].attempt = 1

\* what task t records, as decided by its own adapter calls alone
OwnContent(t) ==
  IF Raised(t) = 5 /\ worker[t].result.via = "line163"
  THEN worker[t].result.content
  ELSE <<"answer", ToString(t), ToString(Raised(t) + 1)>>

\* C12: in the returned table every cell of a requested provider without
\* credential is the fixed string "Initialization failed", and every cell of
\* a provider with credential holds what its own task's calls produced,
\* whichever other providers failed to initialize.
C12_InitFailureIsolated ==
  Returned =>
    /\ \A m \in Range(models_to_run) :
         m \notin credentials =>
           \A k \in DOMAIN result_df :
             result_df[k].cells[<<m, "_response">>] = <<"Initialization failed">>
    /\ \A t \in Tasks :
         (ModelOf(t) \in credentials /\ LastWriter(t)) =>
           /\ CellOf(t) = OwnContent(t)
           /\ Head(CellOf(t)) \in {"answer", "Error: "}

\* a returned table of two rows, one provider without credential and one
\* with it, whose cells hold answers
C12_Witness ==
  /\ Returned
  /\ Len(result_df) > 1
  /\ \E m, n \in Range(models_to_run) :
       /\ m \notin credentials
       /\ n \in credentials
       /\ \A k \in DOMAIN result_df :
            Head(result_df[k].cells[<<n, "_response">>]) = "answer"

\* C13 as stated: no task of a provider that failed to initialize is ever
\* submitted to the pool.
C13_NeverSubmitted ==
  \A t \in Tasks : model_instances[ModelOf(t)]

\* C13 as amended: a task of a provider that failed to initialize is
\* submitted like any other, but it never waits for a lock, sleeps, calls the
\* adapter or waits for a retry: it is queued, or done with the fixed
\* "Initialization failed" result.
C13_InitFailedNoCall ==
  \A t \in Tasks :
    ~model_instances[ModelOf(t)] =>
      /\ worker[t].pc \in {"queued", "done"}
      /\ worker[t].attempt = 0
      /\ worker[t].waits = <<>>
      /\ \A m \in DOMAIN lock : t \notin lock[m]
      /\ worker[t].pc = "done" =>
           worker[t].result = [via |-> "line144", model |-> ModelOf(t),
                               content |-> <<"Initialization failed">>,
                               full |-> NoneResponse]

\* one task of an uninitialized provider is done and another still queued
\* while a task of another provider is in its adapter call
C13_Witness ==
  \E t, u, v \in Tasks :
    /\ ~model_instances[ModelOf(t)] /\ worker[t].pc = "done"
    /\ ~model_instances[ModelOf(u)] /\ worker[u].pc = "queued"
    /\ model_instances[ModelOf(v)] /\ worker[v].pc = "call"

\* the state of a task: Pending, Running, Succeeded or Failed
Phase(w) ==
  IF w.pc = "queued" THEN "Pending"
  ELSE IF w.pc # "done" THEN "Running"
  ELSE IF w.result.via = "line160" THEN "Succeeded" ELSE "Failed"

\* C15: a task moves Pending -> Running -> Succeeded or Failed only: it never
\* goes back to Pending, never changes once Succeeded or Failed, its first
\* attempt starts once, and its future is never removed, changed or
\* submitted a second time.
C15_TaskStateMachine ==
  [][\A t \in Tasks :
       /\ t \in DOMAIN futures' /\ futures'[t] = futures[t]
       /\ Len(futures') <= Len(questions_df.rows) * Len(models_to_run)
       /\ Phase(worker[t]) = "Pending" =>
            \/ Phase(worker'[t]) \in {"Pending", "Running"}
            \/ worker'[t].result.via = "line144"
       /\ Phase(worker[t]) = "Running" =>
            Phase(worker'[t]) \in {"Running", "Succeeded", "Failed"}
       /\ Phase(worker[t]) \in {"Succeeded", "Failed"} =>
            worker'[t] = worker[t]
       /\ (worker'[t].attempt = 1 /\ worker[t].attempt # 1) =>
            (worker[t].attempt = 0 /\ Phase(worker'[t]) = "Running")
       /\ worker'[t].attempt >= worker[t].attempt
    ]_vars

\* tasks in all four states at once
C15_Witness ==
  \E t, u, v, w \in Tasks :
    /\ Phase(worker[t]) = "Pending"
    /\ Phase(worker[u]) = "Running" /\ worker[u].attempt > 1
    /\ Phase(worker[v]) = "Succeeded"
    /\ Phase(worker[w]) = "Failed"

\* C16: the Result Table is written at most once, and exactly once when the
\* run has ended; the table is built and written only after every task of
\* every row and provider has been submitted and is done.
C16_WriteAfterBarrier ==
  /\ Len(csv_written) <= 1
  /\ (Returned \/ csv_written # <<>> \/ result_df # <<>>) =>
       /\ Len(futures) = Len(questions_df.rows) * Len(models_to_run)
       /\ \A t \in Tasks : worker[t].pc = "done"
       /\ collect_i = Len(futures) + 1
  /\ csv_written # <<>> => csv_written = <<result_df>>
  /\ opc = "exit" => Len(csv_written) = 1

\* the table of a run of six tasks over several rows has been written
C16_Witness ==
  /\ opc = "exit"
  /\ Len(csv_written) = 1
  /\ Len(csv_written[1]) > 1
  /\ Len(futures) = 6

\* the task submitted for input row r and the i-th requested provider
TaskOf(r, i) == (r - 1) * Len(models_to_run) + i

InputKeyAt(r) ==
  <<questions_df.rows[r].index,
    IF "query_id" \in Range(questions_df.columns)
    THEN questions_df.rows[r].query_id ELSE 0>>

\* the input rows, up to row n, that are the first with their key
RECURSIVE FirstSeen(_)
FirstSeen(n) ==
  IF n = 0 THEN <<>>
  ELSE IF \E j \in 1..(n - 1) : InputKeyAt(j) = InputKeyAt(n)
  THEN FirstSeen(n - 1)
  ELSE Append(FirstSeen(n - 1), n)

\* the last input row with the key of row r
LastRowLike(r) ==
  CHOOSE j \in DOMAIN questions_df.rows :
    /\ InputKeyAt(j) = InputKeyAt(r)
    /\ \A k \in DOMAIN questions_df.rows : InputKeyAt(k) = InputKeyAt(r) => k <= j

\* the table fixed by the input and the outcome of each task, with no
\* reference to the order in which the tasks finished
ExpectedTable ==
  LET F == FirstSeen(Len(questions_df.rows))
  IN [k \in DOMAIN F |->
        LET r == questions_df.rows[F[k]]
        IN [index |-> r.index, question |-> r.question,
            category |-> r.category, subcategory1 |-> r.subcategory1,
            subcategory2 |-> r.subcategory2,
            query_id |-> InputKeyAt(F[k])[2],
            cells |-> [c \in {<<models_to_run[i], "_response">> :
                                i \in DOMAIN models_to_run} |->
                         LET i == CHOOSE i \in DOMAIN models_to_run :
                                    <<models_to_run[i], "_response">> = c
                         IN worker[TaskOf(LastRowLike(F[k]), i)].result.content]]]

\* C17: whatever the order in which the tasks finish, each collected result
\* is in the row of its task's (index, query_id) and the column of its
\* task's provider, and the returned table is the one fixed by the input and
\* the tasks' outcomes: same rows, same row order, same cells.
C17_OrderIndependent ==
  /\ \A t \in Tasks :
       (Collected(t) /\ LastWriter(t)) =>
         /\ CellOf(t) = worker[t].result.content
         /\ responses_dict[futures[t].entry_key].index = futures[t].entry_key[1]
         /\ responses_dict[futures[t].entry_key].query_id = futures[t].entry_key[2]
  /\ Returned => result_df = ExpectedTable

\* results are being collected while a later task has finished before an
\* earlier one, which still waits between two attempts
C17_Witness ==
  /\ opc = "collect"
  /\ collect_i > 1
  /\ \E t, u \in Tasks :
       /\ t < u
       /\ worker[t].pc = "backoff"
       /\ worker[u].pc = "done"
       /\ ModelOf(t) = ModelOf(u)

\* C18: every cell the engine records for a Failed task (exhausted retries,
\* or a provider that failed to initialize) matches the repair workflow's
\* error filter.
C18_FailedCellsMatchFilter ==
  \A t \in Tasks :
    (Terminal(t) /\ Phase(worker[t]) = "Failed") =>
      error_mask(worker[t].result.content)

\* the text of a successful response
SuccessfulTexts == {AdapterContent(1, 1), <<"dosing errors">>}

\* row k of the table to repair is in the temporary questions file
Selected(k) ==
  \E j \in DOMAIN rp_temp[1].rows :
    rp_temp[1].rows[j].question = rp_input.rows[k].question

\* C19: the filter of extract_failed_queries selects every row whose cell
\* contains Error, RateLimitError, APIStatusError or RetryError in any letter
\* case, and selects no row whose cell is the text of a successful response.
C19_FilterSelectsErrorsOnly ==
  rp_temp # <<>> =>
    \A k \in DOMAIN rp_input.rows :
      LET cell == rp_input.rows[k].cells[<<rp_model, "_response">>]
      IN /\ (\E pat \in {Spell("Error"), Spell("RateLimitError"),
                         Spell("APIStatusError"), Spell("RetryError")} :
               Contains(Lower(AsStr(cell)), Lower(pat))) => Selected(k)
         /\ cell \in SuccessfulTexts => ~Selected(k)

\* C20: the merged table has the rows of the original table in the same
\* order; a row differs from the original row at most in the provider's
\* response cell, and not at all when its (index, query_id) is not a key of
\* the repair result.
C20_MergeFrame ==
  rp_output # <<>> =>
    LET merged == rp_output[Len(rp_output)]
        col == <<rp_model, "_response">>
    IN /\ merged.cols = rp_input.cols
       /\ Len(merged.rows) = Len(rp_input.rows)
       /\ \A k \in DOMAIN rp_input.rows :
            LET old == rp_input.rows[k]
                new == merged.rows[k]
            IN /\ [new EXCEPT !.cells = <<>>] = [old EXCEPT !.cells = <<>>]
               /\ DOMAIN new.cells = DOMAIN old.cells
               /\ \A c \in DOMAIN old.cells \ {col} : new.cells[c] = old.cells[c]
               /\ (\A j \in DOMAIN rp_results[1].rows :
                     <<rp_results[1].rows[j].index, rp_results[1].rows[j].query_id>>
                       # <<old.index, old.query_id>>) => new = old

\* a merge that replaced the failed cell of one row and left alone a row of
\* the same index and another query_id, whose key was not re-run
C20_Witness ==
  /\ rp_output # <<>>
  /\ \E k, j \in DOMAIN rp_input.rows :
       /\ rp_output[1].rows[k] # rp_input.rows[k]
       /\ rp_output[1].rows[j] = rp_input.rows[j]
       /\ rp_input.rows[k].index = rp_input.rows[j].index
       /\ rp_input.rows[k].query_id # rp_input.rows[j].query_id

\* the provider's response column in the repair workflow
RepairColumn == <<rp_model, "_response">>

KeyOf(row) == <<row.index, row.query_id>>

\* C21: merge_results matches rows by key, never by position: in the merged
\* table every original row whose (index, query_id) is the key of a row of
\* the new results holds that row's response, wherever the two rows stand in
\* their tables, and every original row whose key is not in the new results
\* keeps its response.
C21_MergeByKey ==
  rp_output # <<>> =>
    LET merged == rp_output[1].rows
        new == rp_results[1].rows
    IN /\ Len(merged) = Len(rp_input.rows)
       /\ \A k \in DOMAIN rp_input.rows :
            /\ KeyOf(merged[k]) = KeyOf(rp_input.rows[k])
            /\ \A j \in DOMAIN new :
                 KeyOf(new[j]) = KeyOf(rp_input.rows[k]) =>
                   merged[k].cells[RepairColumn] = new[j].cells[RepairColumn]
            /\ (\A j \in DOMAIN new : KeyOf(new[j]) # KeyOf(rp_input.rows[k])) =>
                 merged[k].cells[RepairColumn] = rp_input.rows[k].cells[RepairColumn]

\* the second row of the new results replaced the response of the first
\* original row, and the first row of the new results that of the second
C21_Witness ==
  /\ rp_output # <<>>
  /\ Len(rp_input.rows) = 2
  /\ Len(rp_results[1].rows) = 2
  /\ KeyOf(rp_results[1].rows[2]) = KeyOf(rp_input.rows[1])
  /\ KeyOf(rp_results[1].rows[1]) = KeyOf(rp_input.rows[2])
  /\ rp_output[1].rows[1].cells[RepairColumn]
       = rp_results[1].rows[2].cells[RepairColumn]
  /\ rp_output[1].rows[1].cells[RepairColumn]
       # rp_results[1].rows[1].cells[RepairColumn]
  /\ rp_output[1].rows[1].cells[RepairColumn]
       # rp_input.rows[1].cells[RepairColumn]

\* C22: merging is idempotent: merge_results applied to the table it wrote
\* and the same new results writes that table again.
C22_MergeIdempotent ==
  Len(rp_output) = 2 => rp_output[2] = rp_output[1]

\* the merge changed the original table and was applied a second time
C22_Witness ==
  /\ Len(rp_output) = 2
  /\ rp_output[1].rows # rp_input.rows
  /\ Len(rp_results[1].rows) = 2

\* C23: saving the raw store never fails the run: a failed pickle dump is
\* followed by the JSON dump, and after the pickle dump succeeded, the JSON
\* dump succeeded or both failed, main goes on to write the Result Table,
\* which it can always do, and ends with that table written and exit code 0.
C23_RawLossIsNotFatal ==
  /\ raw_saved \in {<<>>, <<"pkl">>, <<"pkl_failed", "json">>,
                    <<"pkl_failed", "json_failed">>}
  /\ raw_saved # <<>> => opc \in {"write_csv", "exit"}
  /\ opc \in {"write_csv", "exit"} => raw_saved # <<>>
  /\ opc = "write_csv" => ENABLED WriteCsv
  /\ opc = "exit" => (csv_written = <<result_df>> /\ exit_code = "0")

\* both dumps failed and the table, which has a row, was written
C23_Witness ==
  /\ opc = "exit"
  /\ raw_saved = <<"pkl_failed", "json_failed">>
  /\ Len(csv_written) = 1
  /\ Len(csv_written[1]) > 0
  /\ exit_code = "0"

\* the input file is missing or lacks a required column
BadInput ==
  \/ ~file_exists
  \/ \E c \in RequiredColumns : ~HasColumn(csv_file, c)

\* C24: when the input file is missing or lacks a required column, the run
\* is aborted by the error before any task is submitted: no task exists, no
\* adapter call is made, no output file is written and main does not end
\* normally.
C24_BadInputAborts ==
  BadInput =>
    /\ futures = <<>>
    /\ \A t \in Tasks : worker[t].attempt = 0
    /\ raw_saved = <<>>
    /\ csv_written = <<>>
    /\ opc # "exit"

\* the questions of the input rows whose select value is exactly "yes"
SelectedQuestions ==
  {csv_file.rows[k].question :
     k \in {j \in DOMAIN csv_file.rows : csv_file.rows[j].select = "yes"}}

\* C25: only input rows whose select value is exactly "yes" are processed:
\* every loaded row, every submitted task, every row of the accumulator and
\* every row of the Result Table carries the question of such a row.
C25_OnlySelectedRows ==
  /\ \A k \in DOMAIN questions_df.rows :
       questions_df.rows[k].question \in SelectedQuestions
  /\ \A t \in Tasks : futures[t].question \in SelectedQuestions
  /\ \A key \in DOMAIN responses_dict :
       responses_dict[key].question \in SelectedQuestions
  /\ \A k \in DOMAIN result_df : result_df[k].question \in SelectedQuestions
  /\ \A i \in DOMAIN csv_written :
       \A k \in DOMAIN csv_written[i] :
         csv_written[i][k].question \in SelectedQuestions

\* the table of a run on a file with the select values "Yes", "yes", "yes "
\* and the empty string has been written, with one row
C25_Witness ==
  /\ opc = "exit"
  /\ Len(csv_written) = 1
  /\ Len(csv_written[1]) = 1
  /\ \E k \in DOMAIN csv_file.rows : csv_file.rows[k].select = "Yes"
  /\ \E k \in DOMAIN csv_file.rows : csv_file.rows[k].select = "yes "

\* the input row and the position in models_to_run of the t-th pair of the
\* cross product, rows first
PairRow(t) == ((t - 1) \div Len(models_to_run)) + 1

PairModel(t) == ((t - 1) % Len(models_to_run)) + 1

\* C26: the submitted tasks are, in order, the pairs of the cross product of
\* the expanded input rows and the requested providers, one task per pair;
\* every pair has its task before the first result is consumed and before
\* the table is built; a submitted task is never removed or changed, and
\* none is added once the submission loop has ended.
C26_CrossProduct ==
  [][/\ \A t \in DOMAIN futures' :
          /\ PairRow(t) \in DOMAIN questions_df'.rows
          /\ futures'[t].question = questions_df'.rows[PairRow(t)].question
          /\ futures'[t].entry_key =
               <<questions_df'.rows[PairRow(t)].index,
                 IF "query_id" \in Range(questions_df'.columns)
                 THEN questions_df'.rows[PairRow(t)].query_id ELSE 0>>
          /\ futures'[t].model_key = models_to_run'[PairModel(t)]
     /\ (collect_i' > 1 \/ opc' \in {"save_raw", "write_csv", "exit"}) =>
          Len(futures') = Len(questions_df'.rows) * Len(models_to_run')
     /\ \A t \in DOMAIN futures :
          t \in DOMAIN futures' /\ futures'[t] = futures[t]
     /\ opc # "submit" => futures' = futures
    ]_vars

\* the first results of a run of two rows and three providers have been
\* consumed while a later task is still waiting for a retry
C26_Witness ==
  /\ opc = "collect"
  /\ collect_i > 1
  /\ Len(futures) = 6
  /\ Len(questions_df.rows) = 2
  /\ \E t \in Tasks : worker[t].pc = "backoff"

\* the step of main() of the repair workflow that raised, as far as the
\* files left behind tell
ExtractRaised == rp_pc = "exit" /\ rp_temp = <<>> /\ rp_returncode = <<>>

RerunRaised == rp_pc = "exit" /\ rp_returncode # <<>> /\ rp_results = <<>>

MergeRaised == rp_pc = "exit" /\ rp_results # <<>> /\ rp_output = <<>>

\* C27: the repair entry point exits with 1 whenever extract, re-run or merge
\* raised; a subprocess that exited non-zero is such a case, and then no merge
\* is performed and no merged table written; it exits with 0 only when the
\* temporary file was extracted, the subprocess exited with 0 and the merged
\* table was written.
C27_RepairExitCode ==
  /\ rp_pc # "exit" => rp_exit = "running"
  /\ rp_pc = "exit" => rp_exit \in {"0", "1"}
  /\ (ExtractRaised \/ RerunRaised \/ MergeRaised) => rp_exit = "1"
  /\ rp_returncode \in {<<>>, <<0>>, <<1>>}
  /\ rp_returncode = <<1>> =>
       /\ rp_pc = "exit"
       /\ rp_exit = "1"
       /\ rp_results = <<>>
       /\ rp_output = <<>>
  /\ rp_exit = "0" =>
       /\ <<rp_model, "_response">> \in rp_input.cols
       /\ rp_returncode = <<0>>
       /\ rp_results # <<>>
       /\ Len(rp_output) = 1

\* the subprocess exited with 1 after two failed rows had been extracted,
\* and main returned 1
C27_Witness ==
  /\ rp_exit = "1"
  /\ rp_returncode = <<1>>
  /\ rp_temp # <<>>
  /\ Len(rp_temp[1].rows) = 2

\* task u is in its sleep under the lock or in its retried call
UnderLock(w) == w.pc \in {"sleep", "call", "backoff"}

\* C28: while a github or anthropic task waits between two attempts it holds
\* the provider's lock, and no other task of that provider is in or enters
\* its sleep or its call.
C28_LockHeldAcrossRetries ==
  [][\A t \in Tasks :
       (worker[t].pc = "backoff" /\ ModelOf(t) \in {"github", "anthropic"}) =>
         /\ lock[ModelOf(t)] = {t}
         /\ \A u \in Tasks \ {t} :
              ModelOf(u) = ModelOf(t) =>
                /\ ~UnderLock(worker[u])
                /\ ~UnderLock(worker'[u])
    ]_vars

\* an anthropic task waits before its fifth attempt while the other
\* anthropic task waits for the lock, and a github task is in its call while
\* the other github task waits for the lock
C28_Witness ==
  \E t, u, v, w \in Tasks :
    /\ ModelOf(t) = "anthropic" /\ worker[t].pc = "backoff"
    /\ worker[t].attempt = 4
    /\ ModelOf(u) = "anthropic" /\ worker[u].pc = "lock_wait"
    /\ ModelOf(v) = "github" /\ worker[v].pc = "call"
    /\ ModelOf(w) = "github" /\ worker[w].pc = "lock_wait"

\* C29: a task that has reached a terminal state, Failed after its last
\* attempt included, holds no lock: every lock is free or held by one task of
\* its provider that is sleeping, calling or waiting for a retry, and when a
\* lock is free every task waiting for it can acquire it.
C29_TerminalHoldsNoLock ==
  /\ \A t \in Tasks : Terminal(t) => \A m \in DOMAIN lock : t \notin lock[m]
  /\ \A m \in DOMAIN lock :
       /\ Cardinality(lock[m]) <= 1
       /\ \A t \in lock[m] : ModelOf(t) = m /\ worker[t].pc \in {"sleep", "call", "backoff"}
       /\ \A u \in Tasks :
            (ModelOf(u) = m /\ worker[u].pc = "lock_wait"
               /\ \A t \in Tasks : ModelOf(t) = m => worker[t].pc \notin {"sleep", "call", "backoff"})
              => ENABLED Acquire(u)

\* a github task ended Failed after five attempts and the next github task
\* has been admitted and is in its call
C29_Witness ==
  \E t, u \in Tasks :
    /\ ModelOf(t) = "github" /\ ModelOf(u) = "github"
    /\ Terminal(t) /\ worker[t].result.via = "line163" /\ worker[t].attempt = 5
    /\ worker[u].pc = "call"
    /\ lock["github"] = {u}

\* some thread of the pool can take a step
SomeTaskCanStep ==
  \E t \in Tasks :
    \/ ENABLED StartTask(t)
    \/ ENABLED Acquire(t)
    \/ ENABLED SleepDone(t)
    \/ ENABLED CallReturns(t)
    \/ ENABLED CallRaises(t)
    \/ ENABLED BackoffDone(t)

\* C30: the engine never deadlocks: whenever some submitted task is not
\* terminal some task can take a step; a task holds at most one lock, and
\* only while it has a worker and is past the acquisition.
C30_NoDeadlock ==
  /\ (\E t \in Tasks : ~Terminal(t)) => SomeTaskCanStep
  /\ \A t \in Tasks :
       /\ Cardinality({m \in DOMAIN lock : t \in lock[m]}) <= 1
       /\ \A m \in DOMAIN lock :
            t \in lock[m] => worker[t].pc \notin {"queued", "lock_wait", "done"}

\* all six workers are occupied by tasks of one serialized provider: one
\* holds the lock and is in its third attempt, five wait for the lock, and
\* the first task submitted is done
C30_Witness ==
  /\ Cardinality({t \in Tasks : worker[t].pc = "lock_wait"}) = max_workers - 1
  /\ \E h \in Tasks :
       /\ lock["anthropic"] = {h}
       /\ worker[h].pc = "call"
       /\ worker[h].attempt = 3
  /\ \E t \in Tasks : Terminal(t)
  /\ \A t \in Tasks : worker[t].pc # "queued"

\* the number of times instance.chat has been invoked for task t
Invocations(t) == worker[t].attempt

\* C31: for every task the adapter is invoked at most 5 times, at least once
\* when the provider was initialized and never when it was not; a task whose
\* attempt returned is done with the number of invocations it then has, and
\* no step adds an invocation to a task that is done.
C31_InvocationsBounded ==
  [][\A t \in Tasks :
       /\ Invocations(t) <= 5
       /\ ~model_instances[ModelOf(t)] => Invocations(t) = 0
       /\ (Terminal(t) /\ model_instances[ModelOf(t)]) => Invocations(t) >= 1
       /\ worker[t].result.via = "line160" =>
            /\ Terminal(t)
            /\ Invocations(t) = Raised(t) + 1
       /\ worker'[t].attempt \in {worker[t].attempt, worker[t].attempt + 1}
       /\ Terminal(t) => worker'[t] = worker[t]
    ]_vars

\* a finished run with a task that returned on its fifth invocation, a task
\* that returned on its first, and a task of a provider without instance
C31_Witness ==
  /\ opc = "exit"
  /\ \E t, u, v \in Tasks :
       /\ worker[t].result.via = "line160" /\ Invocations(t) = 5
       /\ worker[u].result.via = "line160" /\ Invocations(u) = 1
       /\ worker[v].result.via = "line144" /\ Invocations(v) = 0

\* the shared question metadata of an accumulator row
Meta(e) ==
  <<e.index, e.question, e.category, e.subcategory1, e.subcategory2,
    e.query_id>>

\* C32: the metadata of an accumulator row is set when the row is created,
\* from the input row that is being processed and whose key is seen for the
\* first time, and no later step changes it or removes the row: a later input
\* row with the same key leaves the row as it is, and an arriving result
\* changes nothing but the response cell of its own task.
C32_MetadataSetOnce ==
  [][/\ \A key \in DOMAIN responses_dict :
          /\ key \in DOMAIN responses_dict'
          /\ Meta(responses_dict'[key]) = Meta(responses_dict[key])
     /\ \A key \in DOMAIN responses_dict' :
          key \notin DOMAIN responses_dict =>
            /\ opc = "submit"
            /\ key = InputKeyAt(row_i)
            /\ \A j \in 1..(row_i - 1) : InputKeyAt(j) # key
            /\ Meta(responses_dict'[key]) =
                 <<questions_df.rows[row_i].index,
                   questions_df.rows[row_i].question,
                   questions_df.rows[row_i].category,
                   questions_df.rows[row_i].subcategory1,
                   questions_df.rows[row_i].subcategory2, key[2]>>
            /\ responses_dict'[key].cells = <<>>
     /\ responses_dict' # responses_dict /\ opc = "collect" =>
          /\ DOMAIN responses_dict' = DOMAIN responses_dict
          /\ \A key \in DOMAIN responses_dict :
               \A c \in DOMAIN responses_dict'[key].cells :
                 \/ /\ key = futures[collect_i].entry_key
                    /\ c = <<futures[collect_i].model_key, "_response">>
                 \/ /\ c \in DOMAIN responses_dict[key].cells
                    /\ responses_dict'[key].cells[c] = responses_dict[key].cells[c]
    ]_vars

\* a finished run on two input rows with the same key and different question
\* texts: the one accumulator row has the text of the first, and the cells of
\* several providers
C32_Witness ==
  /\ opc = "exit"
  /\ Len(questions_df.rows) = 2
  /\ InputKeyAt(1) = InputKeyAt(2)
  /\ questions_df.rows[1].question # questions_df.rows[2].question
  /\ Len(result_df) = 1
  /\ result_df[1].question = questions_df.rows[1].question
  /\ Cardinality(DOMAIN result_df[1].cells) > 1

\* a step writes the accumulator or the raw store
WritesStores ==
  responses_dict' # responses_dict \/ raw_responses' # raw_responses

\* a step of a worker thread: the state of a submitted task changes
WorkerStep == \E t \in Tasks : worker'[t] # worker[t]

\* C33: the accumulator and the raw store are written only by the steps of
\* the orchestrating thread (the submission loop and the loop over the
\* futures), one at a time; a step of a worker thread writes neither, and a
\* result is written only after its worker has returned it.
C33_SingleWriter ==
  [][/\ WritesStores =>
          /\ Submit \/ Collect
          /\ ~WorkerStep
          /\ opc = "collect" => Terminal(collect_i)
     /\ WorkerStep =>
          /\ ~WritesStores
          /\ UNCHANGED <<opc, row_i, model_i, collect_i, dict_order>>
    ]_vars

\* the orchestrating thread has written the first results to both stores
\* while worker threads are still inside their calls
C33_Witness ==
  /\ opc = "collect"
  /\ collect_i > 2
  /\ \E key \in DOMAIN raw_responses : raw_responses[key] # <<>>
  /\ \E t, u \in Tasks :
       /\ worker[t].pc = "call" /\ worker[u].pc = "call" /\ t # u

\* raw[index][query_id][provider] exists for the key and provider of task t
HasRaw(t) ==
  /\ futures[t].entry_key \in DOMAIN raw_responses
  /\ ModelOf(t) \in DOMAIN raw_responses[futures[t].entry_key]

\* the rows handed to query_models_parallel have pairwise distinct keys
DistinctInputKeys ==
  \A i, j \in DOMAIN questions_df.rows :
    i # j => InputKeyAt(i) # InputKeyAt(j)

\* C34 as stated: after any run, raw[index][query_id] exists for every row of
\* the Result Table, raw[index][query_id][provider] exists exactly for the
\* tasks that ended Succeeded, and a Failed task has its response cell in
\* the table and no entry in the raw store.
C34_RawForSucceededOnly ==
  Returned =>
    /\ \A k \in DOMAIN result_df : KeyOf(result_df[k]) \in DOMAIN raw_responses
    /\ \A t \in Tasks : HasRaw(t) <=> Phase(worker[t]) = "Succeeded"
    /\ \A t \in Tasks :
         Phase(worker[t]) = "Failed" =>
           /\ \E k \in DOMAIN result_df :
                /\ KeyOf(result_df[k]) = futures[t].entry_key
                /\ <<ModelOf(t), "_response">> \in DOMAIN result_df[k].cells
           /\ ~HasRaw(t)

\* C34 as amended: the same after a run whose input rows have pairwise
\* distinct (index, query_id); the raw entry of a Succeeded task then holds
\* the content of the task's cell in the table.
C34_RawForSucceededOnlyDistinctKeys ==
  (Returned /\ DistinctInputKeys) =>
    /\ \A k \in DOMAIN result_df : KeyOf(result_df[k]) \in DOMAIN raw_responses
    /\ \A t \in Tasks : HasRaw(t) <=> Phase(worker[t]) = "Succeeded"
    /\ \A t \in Tasks :
         Phase(worker[t]) = "Failed" =>
           /\ \E k \in DOMAIN result_df :
                /\ KeyOf(result_df[k]) = futures[t].entry_key
                /\ <<ModelOf(t), "_response">> \in DOMAIN result_df[k].cells
           /\ ~HasRaw(t)
    /\ \A t \in Tasks :
         HasRaw(t) =>
           raw_responses[futures[t].entry_key][ModelOf(t)].content = CellOf(t)

\* a finished run on two rows with distinct keys in which a task succeeded,
\* a task used up its attempts and a task had no instance
C34_Witness ==
  /\ opc = "exit"
  /\ DistinctInputKeys
  /\ Len(result_df) = 2
  /\ \E t, u, v \in Tasks :
       /\ worker[t].result.via = "line160" /\ HasRaw(t)
       /\ worker[u].result.via = "line163" /\ ~HasRaw(u)
       /\ worker[v].result.via = "line144" /\ ~HasRaw(v)

TerminalCount == Cardinality({t \in Tasks : Terminal(t)})

TotalTasks == Len(questions_df.rows) * Len(models_to_run)

\* C35: the progress count is 0 until the loop over the futures starts,
\* never decreases, grows by one at a time, never exceeds the number of
\* tasks that have reached a terminal state, and equals the total number of
\* tasks once query_models_parallel has returned.
C35_ProgressConsistent ==
  [][/\ opc \in {"main", "init_models", "submit"} => ProgressCount = 0
     /\ ProgressCount' \in {ProgressCount, ProgressCount + 1}
     /\ ProgressCount <= TerminalCount
     /\ ProgressCount' <= TerminalCount'
     /\ opc' \in {"save_raw", "write_csv", "exit"} =>
          /\ ProgressCount' = Len(futures')
          /\ ProgressCount' = TotalTasks'
    ]_vars

\* the count stands at 1 of 6 while three tasks are done: the orchestrator
\* waits for the second future, whose task is between two attempts
C35_Witness ==
  /\ opc = "collect"
  /\ ProgressCount = 1
  /\ Len(futures) = 6
  /\ TerminalCount = 3
  /\ worker[2].pc = "backoff"

\* the rows of the input file that are selected, in file order
SelectedRows == SelectSeq(csv_file.rows, LAMBDA r : r.select = "yes")

InputHasQueryId == "query_id" \in Range(csv_file.columns)

\* the (index, query_id) pairs of the Result Table
TableKeys == {KeyOf(result_df[k]) : k \in DOMAIN result_df}

\* without repetition: the keys of the table are the (index, query_id) of the
\* selected input rows when the input has a query_id column, and (index, 0)
\* when it has none
UsedAsIs ==
  repeat <= 1 =>
    /\ InputHasQueryId =>
         TableKeys = {<<SelectedRows[k].index, SelectedRows[k].query_id>> :
                        k \in DOMAIN SelectedRows}
    /\ ~InputHasQueryId =>
         /\ \A k \in DOMAIN result_df : result_df[k].query_id = 0
         /\ TableKeys = {<<SelectedRows[k].index, 0>> : k \in DOMAIN SelectedRows}
    /\ \A t \in Tasks : futures[t].entry_key \in TableKeys

\* with repetition: for every index of the selected rows the query_id values
\* of the table are exactly 1..R, whatever the input's query_id values
ReplacedByOneToR ==
  repeat > 1 =>
    /\ {result_df[k].index : k \in DOMAIN result_df} =
         {SelectedRows[k].index : k \in DOMAIN SelectedRows}
    /\ \A i \in {SelectedRows[k].index : k \in DOMAIN SelectedRows} :
         {result_df[k].query_id :
            k \in {j \in DOMAIN result_df : result_df[j].index = i}} = 1..repeat

SelectedIndexUnique ==
  \A j, k \in DOMAIN SelectedRows :
    j # k => SelectedRows[j].index # SelectedRows[k].index

\* C36 as stated: with repetition count <= 1 a query_id of the input is the
\* row key and output value as it is, and without one every row of the table
\* has query_id 0; with R > 1 the query_id values of the table are the
\* generated 1..R, whatever the input held.
C36_QueryIdHandling ==
  Returned => UsedAsIs /\ ReplacedByOneToR

\* C36 as amended: the same, the case R > 1 for inputs whose selected rows
\* have pairwise distinct index values.
C36_QueryIdHandlingUniqueIndex ==
  Returned => UsedAsIs /\ (SelectedIndexUnique => ReplacedByOneToR)

\* a finished run with R = 2 on an input whose two selected rows carried the
\* query_id values 7 and 9: the table has four rows
C36_Witness ==
  /\ opc = "exit"
  /\ repeat = 2
  /\ InputHasQueryId
  /\ SelectedIndexUnique
  /\ {SelectedRows[k].query_id : k \in DOMAIN SelectedRows} = {7, 9}
  /\ Len(result_df) = 4

\* the positions of the rows of the original table whose cell for the
\* provider matches the error filter
MatchingPositions ==
  {k \in DOMAIN rp_input.rows : error_mask(rp_input.rows[k].cells[RepairColumn])}

\* C37: the file extract_failed_queries writes has the columns index,
\* question, category, subcategory1, subcategory2, query_id, select and, in
\* the order of the original table, one row for every row of the table whose
\* {provider}_response matches the error filter and no other row; each row
\* has the values of its original and select = "yes"; the original table is
\* never changed.
C37_ExtractExactlyFailed ==
  [][/\ rp_input' = rp_input
     /\ rp_temp' # <<>> =>
          LET file == rp_temp'[1]
              matching == MatchingPositions
          IN /\ Range(file.columns) =
                  {"index", "question", "category", "subcategory1",
                   "subcategory2", "query_id", "select"}
             /\ Len(file.rows) = Cardinality(matching)
             /\ \A j \in DOMAIN file.rows :
                  \E k \in matching :
                    /\ Cardinality({i \in matching : i < k}) = j - 1
                    /\ file.rows[j].index = rp_input.rows[k].index
                    /\ file.rows[j].question = rp_input.rows[k].question
                    /\ file.rows[j].category = rp_input.rows[k].category
                    /\ file.rows[j].subcategory1 = rp_input.rows[k].subcategory1
                    /\ file.rows[j].subcategory2 = rp_input.rows[k].subcategory2
                    /\ file.rows[j].query_id = rp_input.rows[k].query_id
                    /\ file.rows[j].select = "yes"
    ]_vars

\* of a table of two rows the second, with key (1, 2), has been extracted;
\* the first holds an answer
C37_Witness ==
  /\ rp_pc = "rerun"
  /\ Len(rp_input.rows) = 2
  /\ MatchingPositions = {2}
  /\ rp_input.rows[1].cells[RepairColumn] = <<"answer", "1", "1">>
  /\ Len(rp_temp[1].rows) = 1
  /\ rp_temp[1].rows[1].index = 1
  /\ rp_temp[1].rows[1].query_id = 2

\* the cell of the re-run's row with the given key
NewCell(key) ==
  LET j == CHOOSE j \in DOMAIN rp_results[1].rows :
             KeyOf(rp_results[1].rows[j]) = key
  IN rp_results[1].rows[j].cells[RepairColumn]

\* C38: in the repair of a table written by the engine, repeated (query_id
\* 1..R) or not (query_id 0), the re-run's table has exactly one row for
\* every extracted row, with the same (index, query_id) and no other row;
\* the merge gives every extracted row the cell of the re-run's row with its
\* key and leaves every other row's cell as it was.
C38_RerunKeysMatch ==
  rp_results # <<>> =>
    LET new == rp_results[1].rows
        old == rp_input.rows
        matching == MatchingPositions
    IN /\ Len(new) = Cardinality(matching)
       /\ \A i, j \in DOMAIN new : i # j => KeyOf(new[i]) # KeyOf(new[j])
       /\ {KeyOf(new[j]) : j \in DOMAIN new} =
            {KeyOf(old[k]) : k \in matching}
       /\ \A j \in DOMAIN new :
            Cardinality({k \in DOMAIN old : KeyOf(old[k]) = KeyOf(new[j])}) = 1
       /\ rp_output # <<>> =>
            /\ Len(rp_output[1].rows) = Len(old)
            /\ \A k \in DOMAIN old :
                 rp_output[1].rows[k].cells[RepairColumn] =
                   IF k \in matching THEN NewCell(KeyOf(old[k]))
                   ELSE old[k].cells[RepairColumn]

\* a table of a run without repetition, both of whose rows (query_id 0) had
\* failed, has been merged: both rows now hold the answers of the re-run
C38_Witness ==
  /\ rp_exit = "0"
  /\ Len(rp_input.rows) = 2
  /\ \A k \in DOMAIN rp_input.rows : rp_input.rows[k].query_id = 0
  /\ MatchingPositions = {1, 2}
  /\ Len(rp_results[1].rows) = 2
  /\ \A k \in DOMAIN rp_output[1].rows :
       Head(rp_output[1].rows[k].cells[RepairColumn]) = "answer"

\* C39: on a non-empty question order every call of navigate_question leaves
\* current_question_idx within 0..len(question_order)-1 and moves it by at
\* most one; "previous" at index 0 and "next" at the last index leave the
\* index unchanged; evaluation_complete is false until a call of "next" at
\* the last index sets it, and no call changes the order.
C39_NavigationInRange ==
  [][/\ question_order' # <<>> =>
          current_question_idx' \in 0..(Len(question_order') - 1)
     /\ question_order = <<>> => ~evaluation_complete /\ ~evaluation_complete'
     /\ question_order # <<>> =>
          /\ question_order' = question_order
          /\ current_question_idx' - current_question_idx \in {-1, 0, 1}
          /\ (direction' = "previous" /\ current_question_idx = 0) =>
               current_question_idx' = 0
          /\ (direction' = "next"
                /\ current_question_idx = Len(question_order) - 1) =>
               current_question_idx' = current_question_idx
          /\ (evaluation_complete' /\ ~evaluation_complete) =>
               /\ direction' = "next"
               /\ current_question_idx = Len(question_order) - 1
               /\ current_question_idx' = current_question_idx
    ]_vars

\* on an order of three questions "next" was called at the last index: the
\* index is still 2 and the evaluation is complete
C39_Witness ==
  /\ Len(question_order) = 3
  /\ current_question_idx = 2
  /\ evaluation_complete
  /\ direction = "next"

====
